---- MODULE Spec2Model ----
(***************************************************************************)
(* Model of the proxxy integration-test harnesses:                         *)
(*   IT  IntegrationTest            (src/test_integration.py)              *)
(*   RB  ResponseBodyCaptureTest    (src/test_response_body_capture.py)    *)
(*   PM  PerformanceMonitoringTest  (src/test_performance_monitoring.py)   *)
(* One run of one harness is a sequential controller (pc) acting on up to  *)
(* three service processes.  The environment decides when a process binds  *)
(* its port, when it exits, how each request and query is answered, and    *)
(* when a KeyboardInterrupt is delivered.                                  *)
(***************************************************************************)
EXTENDS Integers, Sequences, FiniteSets, TLC

\* ------------------------------------------------------------------ bounds
\* KeyboardInterrupts delivered during one run.
MaxInterrupts == 1
\* Records the list query of verify_capture may return.
MaxRecords == 2
\* The same, where verify_capture is run on its own (SpecVerify).
MaxVerifyRecords == 3
\* Captured records that verify_response_body_capture matches as test requests.
MaxTestRequests == 2
\* Largest value of a cumulative counter of a metrics snapshot.
MaxCount == 1
MaxMessages == 2

\* ------------------------------------------------------- program constants
IT_ORCH_ATTEMPTS == 15
IT_AGENT_ATTEMPTS == 10
RB_POLL_ROUNDS == 10
RB_PROBE_ATTEMPTS == 5
PM_REPEATS == 3
LARGE_THRESHOLD == 10000
RB_MIN_CHECKS == 3
MIN_SUCCESS_RATE == 50
\* Exit status of a Python process ended by an uncaught KeyboardInterrupt:
\* 128 + SIGINT.
EXIT_SIGINT == 128 + 2

Harnesses == {"IT", "RB", "PM"}
Services == {"orch", "server", "agent"}

\* A URL or path is the sequence of its "/"-separated tokens, the slashes
\* kept as tokens; `ep in url` of the source is contiguous containment.
TEST_SERVER_URL == <<"http:", "/", "/", "127.0.0.1:8000">>

\* SCENARIOS of test_integration.py, in list order: <<method, endpoint>>.
SCENARIOS ==
  << <<"GET",  <<"/", "api", "/", "json">> >>,
     <<"GET",  <<"/", "api", "/", "xml">> >>,
     <<"GET",  <<"/", "api", "/", "large">> >>,
     <<"POST", <<"/", "api", "/", "echo">> >>,
     <<"GET",  <<"/">> >>,
     <<"GET",  <<"/", "robots.txt">> >>,
     <<"GET",  <<"/", ".env">> >>,
     <<"POST", <<"/", "login">> >>,
     <<"GET",  <<"/", "vuln", "/", "xss?q=script">> >>,
     <<"POST", <<"/", "vuln", "/", "xxe">> >>,
     <<"GET",  <<"/", "api", "/", "admin", "/", "users">> >>,
     <<"GET",  <<"/", "config.json">> >>,
     <<"GET",  <<"/", "vuln", "/", "sqli?id=1'">> >>,
     <<"GET",  <<"/", "vuln", "/", "lfi?file=..", "/", "..", "/", "passwd">> >> >>

\* TEST_URLS of test_response_body_capture.py.
TEST_URLS ==
  << <<"http:", "/", "/", "httpbin.org", "/", "json">>,
     <<"http:", "/", "/", "httpbin.org", "/", "html">>,
     <<"http:", "/", "/", "httpbin.org", "/", "xml">>,
     <<"http:", "/", "/", "httpbin.org", "/", "get?test=response_body_capture">> >>

\* test_endpoints of PerformanceMonitoringTest.generate_test_traffic.
test_endpoints ==
  << <<"http:", "/", "/", "localhost:3000", "/", "api", "/", "json">>,
     <<"http:", "/", "/", "localhost:3000", "/", "api", "/", "xml">>,
     <<"http:", "/", "/", "localhost:3000", "/", "api", "/", "large">>,
     <<"http:", "/", "/", "localhost:3000", "/">> >>

\* criticals of IntegrationTest.verify_capture, as indices into SCENARIOS.
criticals == <<1, 4, 3>>

\* Number of requests the traffic driver of harness h issues.
NumScenarios(h) ==
  CASE h = "IT" -> Len(SCENARIOS)
    [] h = "RB" -> Len(TEST_URLS)
    [] h = "PM" -> Len(test_endpoints) * PM_REPEATS

\* ------------------------------------------------------------------- state
VARIABLES
  harness,       \* which harness this run is
  pc,            \* position of the controller
  pstate,        \* service -> "none" | "running" | "listening" | "exited";
                 \* the orchestrator also "http" | "grpc": one port bound
  registered,    \* service -> handle recorded (self.procs / self.x_process)
  probed,        \* service -> a readiness probe observed it answering
  accepted,      \* service -> an HTTP readiness probe got a status it accepts
  sigterm,       \* service -> terminate() signalled it
  sigkill,       \* service -> kill() signalled it
  nSignals,      \* signals cleanup delivered to a child (terminate, kill)
  attempt,       \* counter of the current polling loop
  idx,           \* index of the current loop over scenarios / criticals / handles
  success,       \* success / success_count of the traffic driver
  attempted,     \* scenario indices requested so far, in order
  trafficDone,   \* the traffic driver returned
  throttled,     \* every request of the loop so far was followed by the
                 \* throttle delay
  nQuery,        \* verification queries issued (list, detail, metrics snapshot)
  postQueries,   \* verification queries issued after the traffic driver returned
  nMutation,     \* toggleInterception mutations issued
  stepResults,   \* <<step, result>> of every step function that returned to run
  startFailed,   \* a startup step returned False
  pending,       \* exception in flight: "none" | "exc" | "kbd"
  cleanups,      \* number of times cleanup was entered
  interrupts,    \* KeyboardInterrupts delivered
  runResult,     \* "none" | "notrun" | "true" | "false" | "raised"
  exitCode,      \* exit status of the harness process, -1 while running
  requests_list, \* reply of the list query: sequence of [requestId, url]
  id_matrix,     \* self.id_matrix: scenario index -> requestId, 0 when absent
  all_good,      \* all_good of verify_capture
  verifyResult,  \* verify_capture: "none" | "true" | "false" | "raised"
  data,          \* verify_capture: the detail reply of the last critical queried
  passed,        \* criticals whose content check logged OK
  test_requests, \* verify_response_body_capture: len(test_requests)
  bodyless,      \* a matched test request had no usable responseBody or detail
  initial_metrics, \* verify_performance_metrics: the snapshot before the traffic
  final_metrics, \* verify_performance_metrics: the snapshot after the traffic
  reported,      \* validate_metrics_changes: <<assertion, outcome>> evaluated, in order
  validated,     \* validate_metrics_changes: "none" | "true" | "false"
  results,       \* main of the GraphQL suite: <<test_name, success>> in order
  endpointOk,    \* every query so far was answered 200, parsable, no "errors"
  listed,        \* test_request_detail: records in the reply to its list
                 \* query, -1 when that query failed or has not been sent
  detailId,      \* test_request_detail: the id its detail query was sent
                 \* with, "none" before
  request_detail, \* verify_response_body_capture: the reply to the last detail
                 \* query and the checks_passed it was given (kept only
                 \* where the four checks are run on their own)
  message,       \* native-host stub: the message receive_message returned
  handled,       \* native-host stub: the values handle_message was called with
  stdout,        \* native-host stub: what has reached file descriptor 1
  textbuf,       \* native-host stub: printed text still held by sys.stdout
  echoes,        \* test_toggle_interception: the `enabled` value echoed by
                 \* each of its two mutations ("true" | "false", "absent"
                 \* in a reply that failed or has errors), <<>> before
  failedRequests, \* scenario requests that timed out, were refused or were
                 \* answered with an unexpected status (kept only where the
                 \* traffic driver is run on its own)
  workspace      \* workspace/<project>.proxxy: "absent" | "stale" (left by an
                 \* earlier run) | "fresh" | "reused" (the orchestrator was
                 \* started on the stale directory)

procVars == <<pstate, registered, probed, accepted, sigterm, sigkill, nSignals>>
trafVars == <<success, attempted, trafficDone, throttled>>
qryVars == <<nQuery, postQueries, nMutation>>
itVerVars == <<requests_list, id_matrix, all_good, verifyResult, data, passed>>
rbVerVars == <<test_requests, bodyless>>
metVars == <<initial_metrics, final_metrics, reported, validated>>
verVars == <<itVerVars, rbVerVars, metVars>>
retVars == <<cleanups, runResult, stepResults, startFailed>>
suiteVars == <<results, endpointOk, listed, detailId, echoes>>
idleVars == <<suiteVars, workspace>>
hostVars == <<message, handled, stdout, textbuf>>
vars == <<harness, pc, pstate, registered, probed, accepted, sigterm, sigkill, nSignals, attempt,
          idx, success, attempted, trafficDone, throttled, nQuery, postQueries, nMutation,
          stepResults, startFailed, pending, cleanups, interrupts, runResult,
          exitCode, requests_list, id_matrix, all_good, verifyResult, data,
          passed, test_requests, bodyless, initial_metrics, final_metrics,
          reported, validated, results, endpointOk, listed, detailId, echoes,
          request_detail, message, handled, stdout, textbuf, failedRequests,
          workspace>>

\* Value of a local that is not bound.
Unset == [kind |-> "unset", marker |-> FALSE, echo |-> FALSE, len |-> 0]

\* A field that a body_capture group does not have.
NoField == -1

\* A metrics document as validate_metrics_changes reads it: whether it has a
\* "body_capture" group, and the group's fields.
Snapshot(k, a, su, f, b, r, l) ==
  [kind |-> k, attempts |-> a, successes |-> su, failures |-> f,
   total_bytes_captured |-> b, success_rate |-> r, average_latency_ms |-> l]

NoSnapshot == Snapshot("unset", NoField, NoField, NoField, NoField, NoField, NoField)
NoGroup == Snapshot("nogroup", NoField, NoField, NoField, NoField, NoField, NoField)

\* First position of each harness's entry point.
StartPc(h) ==
  CASE h = "IT" -> "it_workspace"
    [] h = "RB" -> "rb_orch_exists"
    [] h = "PM" -> "pm_main"

\* Every variable but harness and pc before anything has run.
\* `message` before receive_message has returned one.
NoMessage ==
  [kind |-> "none", id |-> "absent", action |-> "other", module |-> "other"]

\* request_detail before any detail query.
NoDetail ==
  [kind |-> "none", responseBody |-> "missing", responseHeaders |-> FALSE,
   checks_passed |-> 0]

Fresh ==
  /\ pstate = [s \in Services |-> "none"]
  /\ registered = [s \in Services |-> FALSE]
  /\ probed = [s \in Services |-> FALSE]
  /\ accepted = [s \in Services |-> FALSE]
  /\ sigterm = [s \in Services |-> FALSE]
  /\ sigkill = [s \in Services |-> FALSE]
  /\ nSignals = 0
  /\ attempt = 0
  /\ idx = 1
  /\ success = 0
  /\ attempted = <<>>
  /\ trafficDone = FALSE
  /\ throttled = TRUE
  /\ nQuery = 0
  /\ postQueries = 0
  /\ nMutation = 0
  /\ stepResults = <<>>
  /\ startFailed = FALSE
  /\ pending = "none"
  /\ cleanups = 0
  /\ interrupts = 0
  /\ runResult = "none"
  /\ exitCode = -1
  /\ requests_list = <<>>
  /\ id_matrix = [i \in 1..Len(SCENARIOS) |-> 0]
  /\ all_good = TRUE
  /\ verifyResult = "none"
  /\ data = Unset
  /\ passed = {}
  /\ test_requests = 0
  /\ bodyless = FALSE
  /\ initial_metrics = NoSnapshot
  /\ final_metrics = NoSnapshot
  /\ reported = <<>>
  /\ validated = "none"
  /\ results = <<>>
  /\ endpointOk = TRUE
  /\ listed = -1
  /\ detailId = "none"
  /\ echoes = <<>>
  /\ request_detail = NoDetail
  /\ message = NoMessage
  /\ handled = <<>>
  /\ stdout = <<>>
  /\ textbuf = <<>>
  /\ failedRequests = 0
  /\ workspace \in {"absent", "stale"}

Init ==
  /\ harness \in Harnesses
  /\ pc = StartPc(harness)
  /\ Fresh


\* ------------------------------------------------------------ run plumbing
StartupSteps ==
  {"start_services", "start_orchestrator", "start_proxy_agent", "start_test_server"}

\* RunNext with the failure branches lost: a step that returned False is
\* followed like one that returned True.
RunNextNoAbort(h, step, ok) ==
  CASE h = "IT" ->
         IF step = "start_services" THEN "it_traffic" ELSE "it_report"
    [] h = "RB" ->
         CASE step = "start_orchestrator" -> "rb_agent_exists"
           [] step = "start_proxy_agent" -> "rb_toggle"
           [] step = "disable_interception" -> "rb_traffic"
           [] step = "generate_test_traffic" -> "rb_verify"
           [] OTHER -> IF ok THEN "ret_true" ELSE "ret_false"
    [] h = "PM" ->
         CASE step = "start_orchestrator" -> "pm_popen_agent"
           [] step = "start_proxy_agent" -> "pm_popen_server"
           [] step = "start_test_server" -> "pm_sleep_ready"
           [] OTHER -> IF ok THEN "ret_true" ELSE "ret_false"

\* The if-chain of run / run_test: where the controller goes after step
\* function `step` returned `ok`.  "ret_true" and "ret_false" are the
\* return statements of run (RB) and run_test (PM).
RunNext(h, step, ok) ==
  CASE h = "IT" ->
         IF step = "start_services" /\ ok THEN "it_traffic" ELSE "it_report"
    [] h = "RB" ->
         IF ~ok THEN "ret_false"
         ELSE CASE step = "start_orchestrator" -> "rb_agent_exists"
                [] step = "start_proxy_agent" -> "rb_toggle"
                [] step = "disable_interception" -> "rb_traffic"
                [] step = "generate_test_traffic" -> "rb_verify"
                [] OTHER -> "ret_true"
    [] h = "PM" ->
         IF ~ok THEN "ret_false"
         ELSE CASE step = "start_orchestrator" -> "pm_popen_agent"
                [] step = "start_proxy_agent" -> "pm_popen_server"
                [] step = "start_test_server" -> "pm_sleep_ready"
                [] OTHER -> "ret_true"

\* Step function `step` returns `ok` to run; a return statement of run
\* enters the finally clause, that is cleanup.
StepReturns(step, ok) ==
  LET tgt == RunNext(harness, step, ok) IN
  /\ stepResults' = Append(stepResults, <<step, ok>>)
  /\ startFailed' = (startFailed \/ (step \in StartupSteps /\ ~ok))
  /\ attempt' = 0
  /\ idx' = 1
  /\ IF tgt \in {"ret_true", "ret_false"}
     THEN /\ runResult' = (IF tgt = "ret_true" THEN "true" ELSE "false")
          /\ pc' = "cl_term"
          /\ cleanups' = cleanups + 1
     ELSE /\ pc' = tgt
          /\ UNCHANGED <<runResult, cleanups>>

\* An exception of kind k ("exc" or "kbd") leaves the try body of run.
\* IT has try/finally only: the exception stays in flight through cleanup.
\* RB and PM catch both kinds, return False, and then run cleanup.
RaiseInBody(k) ==
  /\ pc' = "cl_term"
  /\ cleanups' = cleanups + 1
  /\ attempt' = 0
  /\ idx' = 1
  /\ IF harness = "IT"
     THEN pending' = k /\ runResult' = "raised"
     ELSE pending' = pending /\ runResult' = "false"
  /\ UNCHANGED <<stepResults, startFailed>>

\* Move to position p inside a step function.
Goto(p) == pc' = p /\ UNCHANGED retVars

\* subprocess.Popen for service s: the child exists from here on.  The
\* orchestrator is started with --project and opens the project directory:
\* the one it finds, or a new one.
Spawn(s) ==
  /\ pstate' = [pstate EXCEPT ![s] = "running"]
  /\ workspace' = (IF s # "orch" THEN workspace
                   ELSE IF workspace = "stale" THEN "reused" ELSE "fresh")

\* `if os.path.exists(dir): shutil.rmtree(dir)`, when rmtree does not raise.
Rmtree == workspace' = (IF workspace = "stale" THEN "absent" ELSE workspace)

\* Recording the handle Popen returned.
Register(s) == registered' = [registered EXCEPT ![s] = TRUE]

\* Whether a connection to the port is accepted: 9090 (GraphQL over HTTP)
\* and 50051 (gRPC) are the orchestrator's, 8080 is the agent's listen port.
PortOpen(port) ==
  CASE port = 9090 -> pstate["orch"] \in {"http", "listening"}
    [] port = 50051 -> pstate["orch"] \in {"grpc", "listening"}
    [] port = 8080 -> pstate["agent"] = "listening"
    [] OTHER -> FALSE

\* An HTTP probe got an answer from service s (the orchestrator's GraphQL
\* endpoint, or a request through the agent).
Answering(s) == IF s = "orch" THEN PortOpen(9090) ELSE pstate[s] = "listening"

\* ITReady with `or` between the two control-plane ports.
ITReadyEither(s) ==
  IF s = "orch" THEN PortOpen(9090) \/ PortOpen(50051) ELSE PortOpen(8080)

\* The condition of a polling loop of start_services:
\* `self.check_port(9090) and self.check_port(50051)`, `self.check_port(8080)`.
ITReady(s) ==
  IF s = "orch" THEN PortOpen(9090) /\ PortOpen(50051) ELSE PortOpen(8080)

\* ------------------------------------------- IntegrationTest.start_services
\* The stale project directory is removed; an exception of rmtree leaves
\* start_services.
ITCleanWorkspace ==
  /\ harness = "IT" /\ pc = "it_workspace"
  /\ \/ /\ Rmtree
        /\ Goto("it_popen_orch")
        /\ UNCHANGED <<attempt, idx, pending>>
     \/ /\ workspace = "stale"
        /\ RaiseInBody("exc")
        /\ UNCHANGED workspace
  /\ UNCHANGED <<harness, hostVars, request_detail, failedRequests, suiteVars, procVars, trafVars, qryVars, verVars,
                 interrupts, exitCode>>

ITPopen(s, here, next) ==
  /\ harness = "IT" /\ pc = here
  /\ \E ok \in BOOLEAN :
       IF ok
       THEN /\ Spawn(s)
            /\ Goto(next)
            /\ UNCHANGED <<attempt, idx, pending>>
       ELSE /\ RaiseInBody("exc")
            /\ UNCHANGED <<pstate, workspace>>
  /\ UNCHANGED <<harness, hostVars, request_detail, failedRequests, suiteVars, registered, probed, accepted, sigterm, sigkill, nSignals, trafVars,
                 qryVars, verVars, interrupts, exitCode>>

ITAppend(s, here, next) ==
  /\ harness = "IT" /\ pc = here
  /\ Register(s)
  /\ Goto(next)
  /\ attempt' = 0
  /\ UNCHANGED <<harness, hostVars, request_detail, failedRequests, idleVars, pstate, probed, accepted, sigterm, sigkill, nSignals, idx, trafVars,
                 qryVars, verVars, pending, interrupts, exitCode>>

\* One round of `for _ in range(limit): if check_port(..): break; sleep(1)`
\* with its else branch `return False`.
ITProbe(s, here, next, limit) ==
  /\ harness = "IT" /\ pc = here
  /\ IF ITReady(s)
     THEN /\ probed' = [probed EXCEPT ![s] = TRUE]
          /\ Goto(next)
          /\ attempt' = 0
          /\ UNCHANGED idx
     ELSE /\ UNCHANGED probed
          /\ IF attempt + 1 < limit
             THEN Goto(here) /\ attempt' = attempt + 1 /\ UNCHANGED idx
             ELSE StepReturns("start_services", FALSE)
  /\ UNCHANGED <<harness, hostVars, request_detail, failedRequests, idleVars, pstate, registered, accepted, sigterm, sigkill, nSignals, trafVars,
                 qryVars, verVars, pending, interrupts, exitCode>>

ITPopenOrch == ITPopen("orch", "it_popen_orch", "it_append_orch")
ITAppendOrch == ITAppend("orch", "it_append_orch", "it_probe_orch")
ITProbeOrch == ITProbe("orch", "it_probe_orch", "it_popen_server", IT_ORCH_ATTEMPTS)
ITPopenServer == ITPopen("server", "it_popen_server", "it_append_server")
ITAppendServer == ITAppend("server", "it_append_server", "it_sleep_server")

\* time.sleep(2) after launching the test server: no probe.
ITSleepServer ==
  /\ harness = "IT" /\ pc = "it_sleep_server"
  /\ Goto("it_popen_agent")
  /\ UNCHANGED <<harness, hostVars, request_detail, failedRequests, idleVars, procVars, attempt, idx, trafVars, qryVars, verVars,
                 pending, interrupts, exitCode>>

ITPopenAgent == ITPopen("agent", "it_popen_agent", "it_append_agent")
ITAppendAgent == ITAppend("agent", "it_append_agent", "it_probe_agent")
ITProbeAgent == ITProbe("agent", "it_probe_agent", "it_toggle", IT_AGENT_ATTEMPTS)

\* self.graphql(toggleInterception(enabled: false)); the reply is ignored and
\* graphql swallows every failure; then `return True`.
ITToggle ==
  /\ harness = "IT" /\ pc = "it_toggle"
  /\ nMutation' = nMutation + 1
  /\ StepReturns("start_services", TRUE)
  /\ UNCHANGED <<harness, hostVars, request_detail, failedRequests, idleVars, procVars, trafVars, nQuery, postQueries, verVars,
                 pending, interrupts, exitCode>>


\* ------------------------------------------------------- the traffic driver
Outcomes == {"ok", "badstatus", "timeout", "refused"}

\* The request call raised (requests.get / requests.post, or a
\* KeyboardInterrupt delivered inside the try block).
RequestRaises(o) == o \in {"timeout", "refused", "interrupt"}

\* Caught with an except clause that names the timeout only.
CaughtTimeoutOnly(h, o) == o = "timeout"

\* Whether the except clause around the request catches it: `except:` in
\* IT catches everything, `except Exception` in RB and PM catches every
\* request failure but not KeyboardInterrupt.
Caught(h, o) == IF h = "IT" THEN TRUE ELSE o # "interrupt"

\* Whether the driver counts the request as a success: IT counts every call
\* that did not raise, RB and PM count status 200 only.
Counted(h, o) == IF h = "IT" THEN ~RequestRaises(o) ELSE o = "ok"

\* Whether the iteration performs the throttle delay (time.sleep) after a
\* request that ended as o: IT and PM sleep inside the try block, behind the
\* request, so a request that raised skips the delay; RB sleeps behind the
\* try statement.
Throttles(h, o) == IF h = "RB" THEN TRUE ELSE ~RequestRaises(o)

TrafficPc(h) ==
  CASE h = "IT" -> "it_traffic" [] h = "RB" -> "rb_traffic" [] h = "PM" -> "pm_traffic"

\* SettlePc for an IT driver that returns without its settling sleep: run
\* goes from the last request straight to verify_capture.
SettlePcNoWait(h) ==
  CASE h = "IT" -> "it_verify_list" [] h = "RB" -> "rb_settle" [] h = "PM" -> "pm_traffic_ret"

SettlePc(h) ==
  CASE h = "IT" -> "it_settle" [] h = "RB" -> "rb_settle" [] h = "PM" -> "pm_traffic_ret"

\* One iteration of the request loop, the request ending as outcome o.
TrafficStep(o) ==
  /\ pc = TrafficPc(harness)
  /\ attempted' = Append(attempted, idx)
  /\ UNCHANGED trafficDone
  /\ IF RequestRaises(o) /\ ~Caught(harness, o)
     THEN /\ RaiseInBody(IF o = "interrupt" THEN "kbd" ELSE "exc")
          /\ UNCHANGED <<success, throttled>>
     ELSE /\ success' = IF Counted(harness, o) THEN success + 1 ELSE success
          /\ throttled' = (throttled /\ Throttles(harness, o))
          /\ idx' = idx + 1
          /\ Goto(IF idx < NumScenarios(harness)
                  THEN TrafficPc(harness) ELSE SettlePc(harness))
          /\ UNCHANGED <<attempt, pending>>

Traffic ==
  /\ \E o \in Outcomes : TrafficStep(o)
  /\ UNCHANGED <<harness, hostVars, request_detail, failedRequests, idleVars, procVars, qryVars, verVars, interrupts, exitCode>>

\* After the loop: the settling sleep (IT 5 s, RB 10 s) and the return.
\* IT returns None and run goes on to verify_capture; RB returns
\* success_count > 0 to run; PM returns it to verify_performance_metrics,
\* which returns False at once when it is False.
TrafficReturn ==
  /\ pc = SettlePc(harness)
  /\ trafficDone' = TRUE
  /\ success' = 0
  /\ throttled' = TRUE
  /\ UNCHANGED attempted
  /\ CASE harness = "IT" ->
            Goto("it_verify_list") /\ UNCHANGED <<attempt, idx>>
       [] harness = "RB" ->
            StepReturns("generate_test_traffic", success > 0)
       [] harness = "PM" ->
            IF success > 0
            THEN Goto("pm_final_metrics") /\ UNCHANGED <<attempt, idx>>
            ELSE StepReturns("verify_performance_metrics", FALSE)
  /\ initial_metrics' = (IF harness = "PM" /\ success = 0 THEN NoSnapshot
                         ELSE initial_metrics)
  /\ UNCHANGED <<harness, hostVars, request_detail, failedRequests, idleVars, procVars, qryVars, itVerVars, rbVerVars, final_metrics,
                 reported, validated, pending, interrupts, exitCode>>

\* ------------------------------------------ IntegrationTest.verify_capture
\* `ep in r["url"]`: frag occurs in url as a contiguous run of tokens.
Contains(frag, url) ==
  \E k \in 0..(Len(url) - Len(frag)) : SubSeq(url, k + 1, k + Len(frag)) = frag

\* The inner loop `for _, ep, _ in SCENARIOS: if ep in r["url"]:
\* self.id_matrix[ep] = r["requestId"]` for one record r.
MatrixAfterRecord(m, r) ==
  [i \in 1..Len(SCENARIOS) |->
     IF Contains(SCENARIOS[i][2], r.url) THEN r.requestId ELSE m[i]]

\* The outer loop `for r in requests_list`, from the empty matrix.
RECURSIVE BuildMatrix(_)
BuildMatrix(recs) ==
  IF recs = <<>> THEN [i \in 1..Len(SCENARIOS) |-> 0]
  ELSE MatrixAfterRecord(BuildMatrix(SubSeq(recs, 1, Len(recs) - 1)),
                         recs[Len(recs)])

\* URLs the store may report: the test server's json, large, echo and root.
RecordUrls == {TEST_SERVER_URL \o SCENARIOS[i][2] : i \in {1, 3, 4, 5}}

\* Record lists of up to n records; the store numbers them.
RecordListsUpTo(n) == UNION {[1..k -> RecordUrls] : k \in 0..n}

RecordLists == RecordListsUpTo(MaxRecords)

Records(urls) ==
  [i \in 1..Len(urls) |-> [requestId |-> i, url |-> urls[i]]]

\* Replies of self.graphql to the list query: None (transport or decode
\* failure), a reply without "data", {"data": null}, or a record list.
ListKinds == {"none", "nodata", "datanull", "ok"}

\* `if not res or "data" not in res: return False`, then
\* `res["data"]["requests"]`, which raises TypeError on a null data.
ListOutcome(kind) ==
  CASE kind \in {"none", "nodata"} -> "false"
    [] kind = "datanull" -> "raise"
    [] OTHER -> "ok"

ITVerifyListFrom(lists) ==
  /\ harness = "IT" /\ pc = "it_verify_list"
  /\ nQuery' = nQuery + 1
  /\ postQueries' = postQueries + 1
  /\ UNCHANGED nMutation
  /\ \E kind \in ListKinds, urls \in lists :
       /\ kind # "ok" => urls = <<>>
       /\ CASE ListOutcome(kind) = "false" ->
                 /\ verifyResult' = "false"
                 /\ StepReturns("verify_capture", FALSE)
                 /\ UNCHANGED <<requests_list, id_matrix, all_good, pending>>
            [] ListOutcome(kind) = "raise" ->
                 /\ verifyResult' = "raised"
                 /\ RaiseInBody("exc")
                 /\ UNCHANGED <<requests_list, id_matrix, all_good>>
            [] OTHER ->
                 /\ requests_list' = Records(urls)
                 /\ id_matrix' = BuildMatrix(Records(urls))
                 /\ all_good' = TRUE
                 /\ idx' = 1
                 /\ Goto("it_verify_detail")
                 /\ UNCHANGED <<verifyResult, attempt, pending>>
  /\ UNCHANGED <<harness, hostVars, request_detail, failedRequests, idleVars, procVars, trafVars, data, passed, test_requests,
                 bodyless, metVars, interrupts, exitCode>>

ITVerifyList == ITVerifyListFrom(RecordLists)


\* Replies of self.graphql to a detail query.  A captured body is known by
\* what the content checks read of it: whether it contains "server_time",
\* whether it contains str(ECHO_PAYLOAD["test_id"]), and its length.
DetailKinds ==
  {"none",      \* graphql returned None
   "nodata",    \* a reply without a "data" key
   "datanull",  \* {"data": null}
   "reqnull",   \* {"data": {"request": null}}
   "bodynull",  \* {"data": {"request": {"responseBody": null}}}
   "nobody",    \* a request object without "responseBody"
   "body"}      \* responseBody is a string

BodyLengths == {0, 500, LARGE_THRESHOLD, LARGE_THRESHOLD + 1}

DetailReplies ==
  [kind : DetailKinds \ {"body"}, marker : {FALSE}, echo : {FALSE}, len : {0}]
  \cup [kind : {"body"}, marker : BOOLEAN, echo : BOOLEAN, len : BodyLengths]

\* `detail.get("data", {}).get("request", {})` then
\* `data.get("responseBody", "")` and the content check: AttributeError on
\* None.get, TypeError on `x in None` and len(None).
DetailRaises(reply) == reply.kind \in {"none", "datanull", "reqnull", "bodynull"}

\* ContentOk with the echo check lost: any captured echo body passes.
ContentOkNoEcho(ep, reply) ==
  LET present == reply.kind = "body" IN
  CASE ep = 1 -> present /\ reply.marker
    [] ep = 4 -> present
    [] ep = 3 -> present /\ reply.len > LARGE_THRESHOLD
    [] OTHER -> TRUE

\* ContentOk with the large-body comparison made non-strict.
ContentOkAtLeast(ep, reply) ==
  LET present == reply.kind = "body" IN
  CASE ep = 1 -> present /\ reply.marker
    [] ep = 4 -> present /\ reply.echo
    [] ep = 3 -> present /\ reply.len >= LARGE_THRESHOLD
    [] OTHER -> TRUE

\* The content check of critical scenario ep (an index into SCENARIOS) on a
\* reply that did not raise; a missing key gives the empty body.
ContentOk(ep, reply) ==
  LET present == reply.kind = "body" IN
  CASE ep = 1 -> present /\ reply.marker
    [] ep = 4 -> present /\ reply.echo
    [] ep = 3 -> present /\ reply.len > LARGE_THRESHOLD
    [] OTHER -> TRUE

\* Correlated for a check that takes every critical as correlated.
CorrelatedAlways(m, ep) == TRUE

\* `ep in self.id_matrix`.
Correlated(m, ep) == m[ep] # 0

\* One iteration of `for ep in criticals`: a critical without an entry sets
\* all_good to False and continues; otherwise the detail query is sent and
\* the content check run on its reply.
ITVerifyDetail ==
  /\ harness = "IT" /\ pc = "it_verify_detail"
  /\ LET ep == criticals[idx]
         Continue(ok) ==
           /\ all_good' = (all_good /\ ok)
           /\ passed' = (IF ok THEN passed \cup {ep} ELSE passed)
           /\ idx' = idx + 1
           /\ Goto(IF idx < Len(criticals) THEN "it_verify_detail"
                   ELSE "it_verify_ret")
           /\ UNCHANGED <<verifyResult, attempt, pending>>
     IN IF ~Correlated(id_matrix, ep)
        THEN /\ Continue(FALSE)
             /\ UNCHANGED <<qryVars, data>>
        ELSE /\ nQuery' = nQuery + 1
             /\ postQueries' = postQueries + 1
             /\ UNCHANGED nMutation
             /\ \E reply \in DetailReplies :
                  IF DetailRaises(reply)
                  THEN /\ verifyResult' = "raised"
                       /\ RaiseInBody("exc")
                       /\ data' = Unset
                       /\ UNCHANGED <<all_good, passed>>
                  ELSE /\ data' = reply
                       /\ Continue(ContentOk(ep, reply))
  /\ UNCHANGED <<harness, hostVars, request_detail, failedRequests, idleVars, procVars, trafVars, requests_list, id_matrix,
                 test_requests, bodyless, metVars, interrupts, exitCode>>

\* `return all_good`.
ITVerifyReturn ==
  /\ harness = "IT" /\ pc = "it_verify_ret"
  /\ verifyResult' = (IF all_good THEN "true" ELSE "false")
  /\ data' = Unset
  /\ StepReturns("verify_capture", all_good)
  /\ UNCHANGED <<harness, hostVars, request_detail, failedRequests, idleVars, procVars, trafVars, qryVars, requests_list,
                 id_matrix, all_good, passed, test_requests, bodyless, metVars, pending,
                 interrupts, exitCode>>

\* ---------------------------------------------- IntegrationTest.run, tail
\* The verdict and the id list are printed.
ITReport ==
  /\ harness = "IT" /\ pc = "it_report"
  /\ Goto("it_input")
  /\ UNCHANGED <<harness, hostVars, request_detail, failedRequests, idleVars, procVars, attempt, idx, trafVars, qryVars, verVars,
                 pending, interrupts, exitCode>>

\* input(): the operator presses ENTER, or standard input is at end of file
\* and input raises EOFError.
ITInput ==
  /\ harness = "IT" /\ pc = "it_input"
  /\ \E ev \in {"enter", "eof"} :
       IF ev = "enter"
       THEN /\ pc' = "cl_term"
            /\ cleanups' = cleanups + 1
            /\ runResult' = "returned"
            /\ idx' = 1
            /\ attempt' = 0
            /\ UNCHANGED <<stepResults, startFailed, pending>>
       ELSE RaiseInBody("exc")
  /\ UNCHANGED <<harness, hostVars, request_detail, failedRequests, idleVars, procVars, trafVars, qryVars, verVars, interrupts, exitCode>>


\* ------------------------------------------------------------------ cleanup
\* The handles cleanup walks, in its order: IT walks self.procs (append
\* order), RB the agent then the orchestrator, PM the test server, the agent,
\* then the orchestrator.
CleanupOrder(h) ==
  CASE h = "IT" -> <<"orch", "server", "agent">>
    [] h = "RB" -> <<"agent", "orch">>
    [] h = "PM" -> <<"server", "agent", "orch">>

\* Skips for a cleanup that stops only the services that were seen ready.
SkipsUnready(h, s) ==
  \/ ~registered[s]
  \/ ~probed[s]
  \/ h = "PM" /\ pstate[s] = "exited"

\* Whether cleanup passes over service s without signalling it: a handle
\* never recorded is not in self.procs / is None; PM also passes over a
\* process whose poll() is not None.
Skips(h, s) ==
  \/ ~registered[s]
  \/ h = "PM" /\ pstate[s] = "exited"

\* Delivers for a library that signals whatever the child's state.
DeliversAlways(s) == TRUE

\* Popen.send_signal polls first and signals only a child that has not
\* exited: terminate() and kill() deliver nothing to an exited child.
Delivers(s) == pstate[s] # "exited"

\* p.terminate()
ClTerm ==
  /\ pc = "cl_term"
  /\ IF idx > Len(CleanupOrder(harness))
     THEN /\ pc' = "finish"
          /\ UNCHANGED <<idx, sigterm, nSignals>>
     ELSE LET s == CleanupOrder(harness)[idx] IN
          IF Skips(harness, s)
          THEN /\ idx' = idx + 1
               /\ UNCHANGED <<pc, sigterm, nSignals>>
          ELSE /\ sigterm' = [sigterm EXCEPT ![s] = @ \/ Delivers(s)]
               /\ nSignals' = (IF Delivers(s) THEN nSignals + 1 ELSE nSignals)
               /\ pc' = "cl_wait"
               /\ UNCHANGED idx
  /\ UNCHANGED <<harness, hostVars, request_detail, failedRequests, idleVars, pstate, registered, probed, accepted, sigkill, attempt,
                 trafVars, qryVars, verVars, retVars, pending, interrupts, exitCode>>

\* Kill that signals without polling the child first.
KillUnpolled(s) ==
  /\ sigkill' = [sigkill EXCEPT ![s] = TRUE]
  /\ nSignals' = nSignals + 1
  /\ pstate' = [pstate EXCEPT ![s] = "exited"]

\* p.kill() (and, in RB and PM, the wait after it): SIGKILL ends the child.
Kill(s) ==
  /\ sigkill' = [sigkill EXCEPT ![s] = @ \/ Delivers(s)]
  /\ nSignals' = (IF Delivers(s) THEN nSignals + 1 ELSE nSignals)
  /\ pstate' = [pstate EXCEPT ![s] = "exited"]

\* p.wait(timeout=..): returns when the child has exited; otherwise the
\* timeout expires and the child is killed.
ClWait ==
  /\ pc = "cl_wait"
  /\ LET s == CleanupOrder(harness)[idx] IN
       \/ /\ pstate[s] = "exited"
          /\ UNCHANGED <<pstate, sigkill, nSignals>>
       \/ /\ pstate[s] # "exited"
          /\ Kill(s)
  /\ idx' = idx + 1
  /\ pc' = "cl_term"
  /\ UNCHANGED <<harness, hostVars, request_detail, failedRequests, idleVars, registered, probed, accepted, sigterm, attempt, trafVars,
                 qryVars, verVars, retVars, pending, interrupts, exitCode>>

\* cleanup() called once more after the first call has returned.
CleanupAgain ==
  /\ pc = "finish"
  /\ cleanups = 1
  /\ idx > Len(CleanupOrder(harness))
  /\ pc' = "cl_term"
  /\ idx' = 1
  /\ cleanups' = cleanups + 1
  /\ UNCHANGED <<harness, hostVars, request_detail, failedRequests, idleVars, procVars, attempt, trafVars, qryVars, verVars,
                 stepResults, startFailed, runResult, pending, interrupts, exitCode>>

\* --------------------------------------------------------- process exit
\* ExitCode with the failure status lost: RB and PM exit 0 whatever run
\* returned.
ExitCodeNoFail(h, result, exc) ==
  CASE h = "IT" ->
         (CASE exc = "none" -> 0 [] exc = "exc" -> 1 [] OTHER -> EXIT_SIGINT)
    [] h = "RB" -> IF exc = "none" THEN 0 ELSE 1
    [] h = "PM" -> IF exc = "kbd" THEN EXIT_SIGINT ELSE 0

\* Exit status of the harness process once run / run_test is over.
\* IT: `IntegrationTest().run()` has no sys.exit: status 0 unless an
\*     exception is still in flight (1 for a traceback, death by SIGINT for
\*     KeyboardInterrupt).
\* RB: main calls sys.exit(0) when run returned True, sys.exit(1) otherwise
\*     and on KeyboardInterrupt.
\* PM: sys.exit(main()), main returning 0 when run_test returned True and 1
\*     otherwise; a KeyboardInterrupt out of cleanup is not caught.
ExitCode(h, result, exc) ==
  CASE h = "IT" ->
         (CASE exc = "none" -> 0 [] exc = "exc" -> 1 [] OTHER -> EXIT_SIGINT)
    [] h = "RB" ->
         IF exc = "none" /\ result = "true" THEN 0 ELSE 1
    [] h = "PM" ->
         IF exc = "kbd" THEN EXIT_SIGINT
         ELSE IF result = "true" THEN 0 ELSE 1

Finish ==
  /\ pc = "finish"
  /\ exitCode' = ExitCode(harness, runResult, pending)
  /\ pc' = "done"
  /\ UNCHANGED <<harness, hostVars, request_detail, failedRequests, idleVars, procVars, attempt, idx, trafVars, qryVars, verVars,
                 retVars, pending, interrupts>>

\* -------------------------------------------------------------- environment
\* A launched service binds a port and starts accepting connections on it;
\* the orchestrator binds its two ports one after the other, in either order.
EnvBind(s) ==
  /\ pc # "done"
  /\ \/ /\ pstate[s] = "running"
        /\ \E p \in (IF s = "orch" THEN {"http", "grpc"} ELSE {"listening"}) :
             pstate' = [pstate EXCEPT ![s] = p]
     \/ /\ pstate[s] \in {"http", "grpc"}
        /\ pstate' = [pstate EXCEPT ![s] = "listening"]
  /\ UNCHANGED <<harness, hostVars, request_detail, failedRequests, idleVars, pc, registered, probed, accepted, sigterm, sigkill, nSignals, attempt,
                 idx, trafVars, qryVars, verVars, retVars, pending, interrupts,
                 exitCode>>

\* A launched service exits (a crash, or its reaction to SIGTERM).
EnvExit(s) ==
  /\ pc # "done"
  /\ pstate[s] \in {"running", "http", "grpc", "listening"}
  /\ pstate' = [pstate EXCEPT ![s] = "exited"]
  /\ UNCHANGED <<harness, hostVars, request_detail, failedRequests, idleVars, pc, registered, probed, accepted, sigterm, sigkill, nSignals, attempt,
                 idx, trafVars, qryVars, verVars, retVars, pending, interrupts,
                 exitCode>>

\* A KeyboardInterrupt is delivered to the controller.
\*  - in cleanup: IT's `except:` around p.wait catches it and kills the
\*    child; anywhere else in cleanup, and everywhere in the cleanup of RB and
\*    PM, it leaves cleanup with the remaining handles untouched;
\*  - in the request loop: see Caught; in IT it may also arrive between two
\*    iterations, outside the try block;
\*  - elsewhere in the try body of run: see RaiseInBody.
\* The locals of the interrupted step function are gone.
Interrupt ==
  /\ interrupts < MaxInterrupts
  /\ pc \notin {"done", "finish", "pm_main"}
  /\ interrupts' = interrupts + 1
  /\ CASE pc = "cl_wait" /\ harness = "IT" ->
            /\ Kill(CleanupOrder(harness)[idx])
            /\ idx' = idx + 1
            /\ pc' = "cl_term"
            /\ UNCHANGED <<attempt, retVars, pending, trafVars>>
       [] pc \in {"cl_term", "cl_wait"} /\ ~(pc = "cl_wait" /\ harness = "IT") ->
            /\ pending' = "kbd"
            /\ runResult' = "raised"
            /\ pc' = "finish"
            /\ UNCHANGED <<pstate, sigkill, nSignals, attempt, idx, cleanups, stepResults,
                           startFailed, trafVars>>
       [] pc = TrafficPc(harness) ->
            /\ \/ TrafficStep("interrupt")
               \/ /\ harness = "IT"
                  /\ RaiseInBody("kbd")
                  /\ UNCHANGED trafVars
            /\ UNCHANGED <<pstate, sigkill, nSignals>>
       [] OTHER ->
            /\ RaiseInBody("kbd")
            /\ UNCHANGED <<pstate, sigkill, nSignals, trafVars>>
  /\ data' = Unset
  /\ test_requests' = 0
  /\ initial_metrics' = NoSnapshot
  /\ final_metrics' = NoSnapshot
  /\ reported' = <<>>
  /\ validated' = "none"
  /\ UNCHANGED <<harness, hostVars, request_detail, failedRequests, idleVars, registered, probed, accepted, sigterm, qryVars, requests_list,
                 id_matrix, all_good, verifyResult, passed, bodyless, exitCode>>

\* ------------------------------ ResponseBodyCaptureTest: the startup steps
\* `if not os.path.exists(BINARY): return False`
RBExists(step, here, next) ==
  /\ harness = "RB" /\ pc = here
  /\ \E ok \in BOOLEAN :
       IF ok THEN Goto(next) /\ UNCHANGED <<attempt, idx>>
       ELSE StepReturns(step, FALSE)
  /\ UNCHANGED <<harness, hostVars, request_detail, failedRequests, idleVars, procVars, trafVars, qryVars, verVars, pending,
                 interrupts, exitCode>>

\* subprocess.Popen inside `try: .. except Exception: return False`, in RB
\* and in PM.
TryPopen(h, s, step, here, next) ==
  /\ harness = h /\ pc = here
  /\ \E ok \in BOOLEAN :
       IF ok
       THEN Spawn(s) /\ Goto(next) /\ UNCHANGED <<attempt, idx>>
       ELSE StepReturns(step, FALSE) /\ UNCHANGED <<pstate, workspace>>
  /\ UNCHANGED <<harness, hostVars, request_detail, failedRequests, suiteVars, registered, probed, accepted, sigterm, sigkill, nSignals, trafVars,
                 qryVars, verVars, pending, interrupts, exitCode>>

\* `self.x_process = <the Popen object>`, in RB and in PM.
Assign(h, s, here, next) ==
  /\ harness = h /\ pc = here
  /\ Register(s)
  /\ Goto(next)
  /\ attempt' = 0
  /\ UNCHANGED <<harness, hostVars, request_detail, failedRequests, idleVars, pstate, probed, accepted, sigterm, sigkill, nSignals, idx, trafVars,
                 qryVars, verVars, pending, interrupts, exitCode>>

\* One round of `for i in range(10): sleep(1); if poll() is not None:
\* return False`.
RBPoll(s, step, here, next) ==
  /\ harness = "RB" /\ pc = here
  /\ IF pstate[s] = "exited"
     THEN StepReturns(step, FALSE)
     ELSE /\ Goto(IF attempt + 1 < RB_POLL_ROUNDS THEN here ELSE next)
          /\ attempt' = (IF attempt + 1 < RB_POLL_ROUNDS THEN attempt + 1 ELSE 0)
          /\ UNCHANGED idx
  /\ UNCHANGED <<harness, hostVars, request_detail, failedRequests, idleVars, procVars, trafVars, qryVars, verVars, pending,
                 interrupts, exitCode>>

\* One attempt of the HTTP probe loop `for attempt in range(5)`:
\*   an acceptable status returns True;
\*   another status goes round again and, after the last attempt, falls out
\*     of the loop to the `return True` behind it;
\*   a RequestException sleeps and goes round again, and returns False on
\*     the last attempt.
\* A status is received only from a service that answers.
RBProbe(s, step, here) ==
  /\ harness = "RB" /\ pc = here
  /\ \E o \in {"ok", "badstatus", "exception"} :
       /\ o # "exception" => Answering(s)
       /\ probed' = [probed EXCEPT ![s] = @ \/ o # "exception"]
       /\ accepted' = [accepted EXCEPT ![s] = @ \/ o = "ok"]
       /\ CASE o = "ok" -> StepReturns(step, TRUE)
            [] o = "badstatus" ->
                 IF attempt + 1 < RB_PROBE_ATTEMPTS
                 THEN Goto(here) /\ attempt' = attempt + 1 /\ UNCHANGED idx
                 ELSE StepReturns(step, TRUE)
            [] OTHER ->
                 IF attempt + 1 < RB_PROBE_ATTEMPTS
                 THEN Goto(here) /\ attempt' = attempt + 1 /\ UNCHANGED idx
                 ELSE StepReturns(step, FALSE)
  /\ UNCHANGED <<harness, hostVars, request_detail, failedRequests, idleVars, pstate, registered, sigterm, sigkill, nSignals, trafVars,
                 qryVars, verVars, pending, interrupts, exitCode>>

RBOrchExists == RBExists("start_orchestrator", "rb_orch_exists", "rb_workspace")

\* The stale project directory is removed; an exception of rmtree is caught
\* by the `except Exception` of start_orchestrator, which returns False.
RBCleanWorkspace ==
  /\ harness = "RB" /\ pc = "rb_workspace"
  /\ \/ /\ Rmtree
        /\ Goto("rb_popen_orch")
        /\ UNCHANGED <<attempt, idx>>
     \/ /\ workspace = "stale"
        /\ StepReturns("start_orchestrator", FALSE)
        /\ UNCHANGED workspace
  /\ UNCHANGED <<harness, hostVars, request_detail, failedRequests, suiteVars, procVars, trafVars, qryVars, verVars,
                 pending, interrupts, exitCode>>

RBPopenOrch ==
  TryPopen("RB", "orch", "start_orchestrator", "rb_popen_orch", "rb_assign_orch")
RBAssignOrch == Assign("RB", "orch", "rb_assign_orch", "rb_poll_orch")
RBPollOrch == RBPoll("orch", "start_orchestrator", "rb_poll_orch", "rb_probe_orch")
RBProbeOrch == RBProbe("orch", "start_orchestrator", "rb_probe_orch")
RBAgentExists == RBExists("start_proxy_agent", "rb_agent_exists", "rb_popen_agent")
RBPopenAgent ==
  TryPopen("RB", "agent", "start_proxy_agent", "rb_popen_agent", "rb_assign_agent")
RBAssignAgent == Assign("RB", "agent", "rb_assign_agent", "rb_poll_agent")
RBPollAgent == RBPoll("agent", "start_proxy_agent", "rb_poll_agent", "rb_probe_agent")
RBProbeAgent == RBProbe("agent", "start_proxy_agent", "rb_probe_agent")

\* disable_interception: the mutation is sent; a transport failure, an
\* "errors" key or an echoed enabled=true make it return False.
RBToggle ==
  /\ harness = "RB" /\ pc = "rb_toggle"
  /\ nMutation' = nMutation + 1
  /\ \E ok \in BOOLEAN : StepReturns("disable_interception", ok)
  /\ UNCHANGED <<harness, hostVars, request_detail, failedRequests, idleVars, procVars, trafVars, nQuery, postQueries, verVars,
                 pending, interrupts, exitCode>>

\* Replies to the list query of verify_response_body_capture: graphql_query
\* raised, an "errors" key, no records, records none of which is a test
\* request, records of which some are test requests.
RBListKinds == {"exception", "errors", "empty", "nomatch", "ok"}

\* The list pass: everything but matched test requests returns False (an
\* exception through the `except Exception` of the function).
RBVerifyList ==
  /\ harness = "RB" /\ pc = "rb_verify"
  /\ nQuery' = nQuery + 1
  /\ postQueries' = postQueries + 1
  /\ UNCHANGED nMutation
  /\ \E kind \in RBListKinds, n \in 1..MaxTestRequests :
       IF kind = "ok"
       THEN /\ test_requests' = n
            /\ success' = 0
            /\ idx' = 1
            /\ Goto("rb_verify_detail")
            /\ UNCHANGED attempt
       ELSE /\ StepReturns("verify_response_body_capture", FALSE)
            /\ UNCHANGED <<test_requests, success>>
  /\ UNCHANGED <<harness, hostVars, request_detail, failedRequests, idleVars, procVars, attempted, trafficDone, throttled, requests_list,
                 id_matrix, all_good, verifyResult, data, passed, bodyless,
                 metVars, pending, interrupts, exitCode>>

\* Replies to a detail query: graphql_query raised, an "errors" key, a null
\* or missing request, a request object.
RBDetailKinds == {"exception", "errors", "notfound", "detail"}

\* A responseBody as the four checks read it: the key missing, null, the
\* empty string, whitespace only, text of no recognised format (unparseable
\* JSON included), parseable JSON, HTML or XML.
RBBodies == {"missing", "null", "empty", "blank", "text", "json", "markup"}

\* The second check without strip(): whitespace counts as content.
ChecksPassedNoStrip(body, headers) ==
  (IF body \notin {"missing", "null"} THEN 1 ELSE 0)
  + (IF body \in {"blank", "text", "json", "markup"} THEN 1 ELSE 0)
  + (IF headers THEN 1 ELSE 0)
  + (IF body \in {"json", "markup"} THEN 1 ELSE 0)

\* checks_passed of one test request.
ChecksPassed(body, headers) ==
  (IF body \notin {"missing", "null"} THEN 1 ELSE 0)
  + (IF body \in {"text", "json", "markup"} THEN 1 ELSE 0)
  + (IF headers THEN 1 ELSE 0)
  + (IF body \in {"json", "markup"} THEN 1 ELSE 0)

\* The verdict after the loop: all, or some, test requests succeeded.
RBOverall(count, total) == count = total \/ count > 0

\* One iteration of `for i, req in enumerate(test_requests)` whose detail
\* query is answered by a reply of the given kind, and the verdict after the
\* last one.
RBVerifyDetailOf(kind, body, headers) ==
  /\ harness = "RB" /\ pc = "rb_verify_detail"
  /\ nQuery' = nQuery + 1
  /\ postQueries' = postQueries + 1
  /\ UNCHANGED nMutation
  /\ kind # "detail" => (body = "missing" /\ ~headers)
  /\ bodyless' = (bodyless \/ kind # "detail"
                           \/ body \in {"missing", "null", "empty", "blank"})
  /\ IF kind = "exception"
     THEN /\ StepReturns("verify_response_body_capture", FALSE)
          /\ test_requests' = 0
          /\ success' = 0
     ELSE LET ok == kind = "detail"
                      /\ ChecksPassed(body, headers) >= RB_MIN_CHECKS
              count == IF ok THEN success + 1 ELSE success
          IN IF idx < test_requests
             THEN /\ success' = count
                  /\ idx' = idx + 1
                  /\ Goto("rb_verify_detail")
                  /\ UNCHANGED <<attempt, test_requests>>
             ELSE /\ StepReturns("verify_response_body_capture",
                                 RBOverall(count, test_requests))
                  /\ test_requests' = 0
                  /\ success' = 0
  /\ UNCHANGED <<procVars, attempted, trafficDone, throttled, requests_list,
                 id_matrix, all_good, verifyResult, data, passed, metVars,
                 pending, interrupts, exitCode>>

RBVerifyDetail ==
  /\ \E kind \in RBDetailKinds, body \in RBBodies, headers \in BOOLEAN :
       RBVerifyDetailOf(kind, body, headers)
  /\ UNCHANGED <<harness, hostVars, request_detail, failedRequests, idleVars>>

\* ------------------------------------------- PerformanceMonitoringTest
\* main: the three os.path.exists checks; a missing binary returns 1 before
\* a PerformanceMonitoringTest is made.
PMMain ==
  /\ harness = "PM" /\ pc = "pm_main"
  /\ \E ok \in BOOLEAN :
       IF ok THEN Goto("pm_popen_orch")
       ELSE /\ pc' = "finish"
            /\ runResult' = "notrun"
            /\ UNCHANGED <<cleanups, stepResults, startFailed>>
  /\ UNCHANGED <<harness, hostVars, request_detail, failedRequests, idleVars, procVars, attempt, idx, trafVars, qryVars, verVars,
                 pending, interrupts, exitCode>>

\* `time.sleep(..); if self.x_process.poll() is not None: return False`,
\* else `return True`: liveness of the child is all that is looked at.
PMPoll(s, step, here) ==
  /\ harness = "PM" /\ pc = here
  /\ StepReturns(step, pstate[s] # "exited")
  /\ UNCHANGED <<harness, hostVars, request_detail, failedRequests, idleVars, procVars, trafVars, qryVars, verVars, pending,
                 interrupts, exitCode>>

PMPopenOrch ==
  TryPopen("PM", "orch", "start_orchestrator", "pm_popen_orch", "pm_assign_orch")
PMAssignOrch == Assign("PM", "orch", "pm_assign_orch", "pm_poll_orch")
PMPollOrch == PMPoll("orch", "start_orchestrator", "pm_poll_orch")
PMPopenAgent ==
  TryPopen("PM", "agent", "start_proxy_agent", "pm_popen_agent", "pm_assign_agent")
PMAssignAgent == Assign("PM", "agent", "pm_assign_agent", "pm_poll_agent")
PMPollAgent == PMPoll("agent", "start_proxy_agent", "pm_poll_agent")
PMPopenServer ==
  TryPopen("PM", "server", "start_test_server", "pm_popen_server", "pm_assign_server")
PMAssignServer == Assign("PM", "server", "pm_assign_server", "pm_poll_server")
PMPollServer == PMPoll("server", "start_test_server", "pm_poll_server")

\* run_test: time.sleep(5), "waiting for services to be ready".
PMSleepReady ==
  /\ harness = "PM" /\ pc = "pm_sleep_ready"
  /\ Goto("pm_initial_metrics")
  /\ UNCHANGED <<harness, hostVars, request_detail, failedRequests, idleVars, procVars, attempt, idx, trafVars, qryVars, verVars,
                 pending, interrupts, exitCode>>

\* `bc.get(name, 0)`.
Get(v) == IF v = NoField THEN 0 ELSE v

\* Assertions with the success-rate comparison made strict.
AssertionsRateStrict(initial, final) ==
  << <<"attempts", Get(final.attempts) - Get(initial.attempts) > 0>>,
     <<"successes", Get(final.successes) - Get(initial.successes) > 0>>,
     <<"total_bytes_captured",
       Get(final.total_bytes_captured) - Get(initial.total_bytes_captured) > 0>>,
     <<"success_rate", Get(final.success_rate) > MIN_SUCCESS_RATE>>,
     <<"average_latency_ms", Get(final.average_latency_ms) > 0>> >>

\* The five checks of validate_metrics_changes in source order, each with
\* the negation of its failure condition.
Assertions(initial, final) ==
  << <<"attempts", ~(Get(final.attempts) - Get(initial.attempts) <= 0)>>,
     <<"successes", ~(Get(final.successes) - Get(initial.successes) <= 0)>>,
     <<"total_bytes_captured",
       ~(Get(final.total_bytes_captured) - Get(initial.total_bytes_captured) <= 0)>>,
     <<"success_rate", ~(Get(final.success_rate) < MIN_SUCCESS_RATE)>>,
     <<"average_latency_ms", ~(Get(final.average_latency_ms) <= 0)>> >>

\* The checks validate_metrics_changes gets to: each failing check returns
\* False at once; none is made when a snapshot lacks the group.
Evaluated(initial, final) ==
  IF initial.kind # "group" \/ final.kind # "group" THEN <<>>
  ELSE LET as == Assertions(initial, final)
           fails == {k \in 1..Len(as) : ~as[k][2]}
       IN IF fails = {} THEN as
          ELSE SubSeq(as, 1, CHOOSE k \in fails : \A j \in fails : k <= j)

\* The value validate_metrics_changes returns.
ValidateMetricsChanges(initial, final) ==
  /\ initial.kind = "group" /\ final.kind = "group"
  /\ \A k \in 1..Len(Evaluated(initial, final)) : Evaluated(initial, final)[k][2]

\* Non-empty metrics documents get_admin_metrics returns during a run: one
\* without the group, one with all counters at zero and no rates yet, one
\* after captures.
RunSnapshots ==
  {NoGroup,
   Snapshot("group", 0, 0, 0, 0, NoField, NoField),
   Snapshot("group", 1, 1, 0, 1, MIN_SUCCESS_RATE, 1)}

\* The snapshot test with the check lost: whatever get_admin_metrics
\* returned is taken as a snapshot.
FetchedAlways(m) == TRUE

\* `if not initial_metrics` / `if not final_metrics`, negated: the document
\* get_admin_metrics returned is neither None nor empty.
Fetched(m) == m # NoSnapshot

\* verify_performance_metrics: the first get_admin_metrics; None (or an
\* empty document) returns False.
PMInitialMetrics ==
  /\ harness = "PM" /\ pc = "pm_initial_metrics"
  /\ nQuery' = nQuery + 1
  /\ UNCHANGED <<postQueries, nMutation>>
  /\ \E m \in RunSnapshots \cup {NoSnapshot} :
       IF Fetched(m)
       THEN /\ initial_metrics' = m
            /\ Goto("pm_traffic") /\ idx' = 1 /\ UNCHANGED attempt
       ELSE /\ StepReturns("verify_performance_metrics", FALSE)
            /\ UNCHANGED initial_metrics
  /\ UNCHANGED <<harness, hostVars, request_detail, failedRequests, idleVars, procVars, trafVars, itVerVars, rbVerVars, final_metrics,
                 reported, validated, pending, interrupts, exitCode>>

\* verify_performance_metrics: sleep(2) and the second get_admin_metrics;
\* None (or an empty document) returns False.
PMFinalMetrics ==
  /\ harness = "PM" /\ pc = "pm_final_metrics"
  /\ nQuery' = nQuery + 1
  /\ postQueries' = postQueries + 1
  /\ UNCHANGED nMutation
  /\ \E m \in RunSnapshots \cup {NoSnapshot} :
       IF Fetched(m)
       THEN /\ final_metrics' = m
            /\ Goto("pm_validate")
            /\ UNCHANGED <<initial_metrics, attempt, idx>>
       ELSE /\ StepReturns("verify_performance_metrics", FALSE)
            /\ initial_metrics' = NoSnapshot
            /\ UNCHANGED final_metrics
  /\ UNCHANGED <<harness, hostVars, request_detail, failedRequests, idleVars, procVars, trafVars, itVerVars, rbVerVars, reported,
                 validated, pending, interrupts, exitCode>>

\* validate_metrics_changes(initial_metrics, final_metrics).
PMValidate ==
  /\ harness = "PM" /\ pc = "pm_validate"
  /\ reported' = Evaluated(initial_metrics, final_metrics)
  /\ validated' = (IF ValidateMetricsChanges(initial_metrics, final_metrics)
                   THEN "true" ELSE "false")
  /\ Goto("pm_verify_ret")
  /\ UNCHANGED <<harness, hostVars, request_detail, failedRequests, idleVars, procVars, attempt, idx, trafVars, qryVars, itVerVars,
                 rbVerVars, initial_metrics, final_metrics, pending, interrupts,
                 exitCode>>

\* `return self.validate_metrics_changes(..)` of verify_performance_metrics.
PMVerifyReturn ==
  /\ harness = "PM" /\ pc = "pm_verify_ret"
  /\ StepReturns("verify_performance_metrics", validated = "true")
  /\ initial_metrics' = NoSnapshot
  /\ final_metrics' = NoSnapshot
  /\ reported' = <<>>
  /\ validated' = "none"
  /\ UNCHANGED <<harness, hostVars, request_detail, failedRequests, idleVars, procVars, trafVars, qryVars, itVerVars, rbVerVars,
                 pending, interrupts, exitCode>>


\* ------------------------------------------- test_graphql_queries.py
\* The tests of main, in order.
tests ==
  << "Basic Connectivity", "Project Listing", "Project Settings",
     "Agents Listing", "HTTP Transactions", "Toggle Interception",
     "Update Scope", "Request Detail", "Response Body Capture Verification",
     "Complex Combined Query", "Create/Delete Project" >>

\* What the endpoint does with one POST: 200 with a JSON body without
\* "errors", 200 with an "errors" key, a failed request or a status that
\* raise_for_status rejects, a body that is not JSON.
ReplyKinds == {"ok", "errors", "http_error", "bad_json"}

\* execute_graphql returns a bool: True for a reply without "errors", False
\* for "errors" and from each of its except clauses.
execute_graphql(reply) == reply = "ok"

\* `key in value`: value is what execute_graphql returned, and a membership
\* test on a bool raises TypeError.
KeyIn(key, value) ==
  IF value \in BOOLEAN THEN "TypeError" ELSE key \in DOMAIN value

\* The `enabled` field of the reply to a toggleInterception mutation: the
\* orchestrator echoes a value in a reply without errors.
Echo(r, e) == IF r = "ok" THEN e ELSE "absent"

\* Tests that send two requests: the two mutations of Toggle Interception
\* and Create/Delete Project, the list query and the detail query of
\* Request Detail.
TwoRequests == {6, 8, 11}

\* Tests whose requests are mutations.
MutationTests == {6, 11}

\* test_toggle_interception, test_create_and_delete_project: both mutations
\* are sent, `return success1 and success2`.
BothSucceed(r1, r2) ==
  LET success1 == execute_graphql(r1)
      success2 == execute_graphql(r2)
  IN  success1 /\ success2

\* test_request_detail: `list_result and "data" in list_result` is False for
\* False and raises TypeError for True, which the bare except swallows; both
\* ways the function falls back to the detail query with the dummy id and
\* returns its result.
test_request_detail(r1, r2) ==
  LET list_result == execute_graphql(r1) IN
  IF list_result /\ KeyIn("data", list_result) # "TypeError"
  THEN execute_graphql(r2)
  ELSE execute_graphql(r2)

\* The id test_request_detail sends its detail query with, the list query
\* answered as r1 with n records: requests_list[0]["requestId"] inside the
\* if, the dummy id behind the try statement.
RequestDetailId(r1, n) ==
  LET list_result == execute_graphql(r1) IN
  IF list_result /\ KeyIn("data", list_result) # "TypeError" /\ n > 0
  THEN "first_request_id"
  ELSE "dummy_request_id"

\* test_response_body_capture_verification: `not result` returns False;
\* otherwise `"errors" in result` raises TypeError on the bool and the
\* `except Exception` of the function returns False.  The walk over the
\* listed requests behind it needs a mapping and is never entered.
test_response_body_capture_verification(r1) ==
  LET result == execute_graphql(r1) IN
  CASE ~result -> FALSE
    [] KeyIn("errors", result) = "TypeError" -> FALSE
    [] OTHER -> TRUE

\* test_func() for the i-th entry of tests, given the replies to its first
\* and second request.
TestFunc(i, r1, r2) ==
  CASE i \in MutationTests -> BothSucceed(r1, r2)
    [] i = 8 -> test_request_detail(r1, r2)
    [] i = 9 -> test_response_body_capture_verification(r1)
    [] OTHER -> execute_graphql(r1)

\* One iteration of the loop of main: the test runs and its result is
\* appended to results.
RunTest(i) ==
  /\ harness = "GQ" /\ pc = "gq_test" /\ idx = i
  /\ \E r1, r2 \in ReplyKinds :
       /\ i \notin TwoRequests => r2 = r1
       /\ results' = Append(results, <<tests[i], TestFunc(i, r1, r2)>>)
       /\ endpointOk' = (endpointOk /\ r1 = "ok" /\ r2 = "ok")
       /\ IF i = 8
          THEN \E n \in 0..MaxRecords :
                 /\ listed' = (IF r1 = "ok" THEN n ELSE -1)
                 /\ detailId' = RequestDetailId(r1, n)
          ELSE UNCHANGED <<listed, detailId>>
       /\ IF i = 6
          THEN \E e1, e2 \in {"true", "false"} :
                 echoes' = <<Echo(r1, e1), Echo(r2, e2)>>
          ELSE UNCHANGED echoes
  /\ nMutation' = nMutation + (IF i \in MutationTests THEN 2 ELSE 0)
  /\ nQuery' = nQuery + (IF i \in MutationTests THEN 0
                         ELSE IF i \in TwoRequests THEN 2 ELSE 1)
  /\ idx' = i + 1
  /\ pc' = (IF i = Len(tests) THEN "gq_summary" ELSE "gq_test")
  /\ UNCHANGED <<harness, hostVars, request_detail, failedRequests, workspace, procVars, attempt, trafVars, postQueries,
                 verVars, retVars, pending, interrupts, exitCode>>

\* The number of failed entries of results.
RECURSIVE Failed(_)
Failed(rs) ==
  IF rs = <<>> THEN 0
  ELSE (IF rs[1][2] THEN 0 ELSE 1) + Failed(Tail(rs))

\* The summary of main: sys.exit(0) when failed == 0, else sys.exit(1).
Summary ==
  /\ harness = "GQ" /\ pc = "gq_summary"
  /\ exitCode' = (IF Failed(results) = 0 THEN 0 ELSE 1)
  /\ pc' = "done"
  /\ UNCHANGED <<harness, hostVars, request_detail, failedRequests, idleVars, procVars, attempt, idx, trafVars, qryVars,
                 verVars, retVars, pending, interrupts>>

\* A KeyboardInterrupt during main: the handler under __main__ exits 1.
SuiteInterrupt ==
  /\ harness = "GQ" /\ pc # "done"
  /\ interrupts < MaxInterrupts
  /\ interrupts' = interrupts + 1
  /\ exitCode' = 1
  /\ pc' = "done"
  /\ UNCHANGED <<harness, hostVars, request_detail, failedRequests, idleVars, procVars, attempt, idx, trafVars, qryVars,
                 verVars, retVars, pending>>


\* ------------------------------------------------------------ specification
Next ==
  \/ ITCleanWorkspace \/ RBCleanWorkspace
  \/ ITPopenOrch \/ ITAppendOrch \/ ITProbeOrch
  \/ ITPopenServer \/ ITAppendServer \/ ITSleepServer
  \/ ITPopenAgent \/ ITAppendAgent \/ ITProbeAgent \/ ITToggle
  \/ Traffic \/ TrafficReturn
  \/ ITVerifyList \/ ITVerifyDetail \/ ITVerifyReturn \/ ITReport \/ ITInput
  \/ RBOrchExists \/ RBPopenOrch \/ RBAssignOrch \/ RBPollOrch \/ RBProbeOrch
  \/ RBAgentExists \/ RBPopenAgent \/ RBAssignAgent \/ RBPollAgent
  \/ RBProbeAgent \/ RBToggle \/ RBVerifyList \/ RBVerifyDetail
  \/ PMMain \/ PMPopenOrch \/ PMAssignOrch \/ PMPollOrch
  \/ PMPopenAgent \/ PMAssignAgent \/ PMPollAgent
  \/ PMPopenServer \/ PMAssignServer \/ PMPollServer
  \/ PMSleepReady \/ PMInitialMetrics \/ PMFinalMetrics
  \/ PMValidate \/ PMVerifyReturn
  \/ ClTerm \/ ClWait \/ Finish
  \/ \E s \in Services : EnvBind(s)
  \/ \E s \in Services : EnvExit(s)
  \/ Interrupt

Spec == Init /\ [][Next]_vars

\* ------------------------------------------- verify_capture on its own
\* The state in which IntegrationTest.run calls verify_capture: start_services
\* returned True and generate_traffic has returned.
InitVerify ==
  /\ harness = "IT"
  /\ pc = "it_verify_list"
  /\ pstate = [s \in Services |-> "listening"]
  /\ registered = [s \in Services |-> TRUE]
  /\ probed = [s \in Services |-> s # "server"]
  /\ accepted = [s \in Services |-> FALSE]
  /\ sigterm = [s \in Services |-> FALSE]
  /\ sigkill = [s \in Services |-> FALSE]
  /\ nSignals = 0
  /\ attempt = 0
  /\ idx = Len(SCENARIOS) + 1
  /\ success = 0
  /\ attempted = [i \in 1..Len(SCENARIOS) |-> i]
  /\ trafficDone = TRUE
  /\ throttled = TRUE
  /\ nQuery = 0
  /\ postQueries = 0
  /\ nMutation = 1
  /\ stepResults = << <<"start_services", TRUE>> >>
  /\ startFailed = FALSE
  /\ pending = "none"
  /\ cleanups = 0
  /\ interrupts = 0
  /\ runResult = "none"
  /\ exitCode = -1
  /\ requests_list = <<>>
  /\ id_matrix = [i \in 1..Len(SCENARIOS) |-> 0]
  /\ all_good = TRUE
  /\ verifyResult = "none"
  /\ data = Unset
  /\ passed = {}
  /\ test_requests = 0
  /\ bodyless = FALSE
  /\ initial_metrics = NoSnapshot
  /\ final_metrics = NoSnapshot
  /\ reported = <<>>
  /\ validated = "none"
  /\ results = <<>>
  /\ endpointOk = TRUE
  /\ listed = -1
  /\ detailId = "none"
  /\ echoes = <<>>
  /\ request_detail = NoDetail
  /\ message = NoMessage
  /\ handled = <<>>
  /\ stdout = <<>>
  /\ textbuf = <<>>
  /\ failedRequests = 0
  /\ workspace = "fresh"

ITVerifyListDeep == ITVerifyListFrom(RecordListsUpTo(MaxVerifyRecords))

NextVerify ==
  \/ ITVerifyListDeep \/ ITVerifyDetail \/ ITVerifyReturn \/ ITReport \/ ITInput
  \/ ClTerm \/ ClWait \/ Finish
  \/ \E s \in Services : EnvExit(s)
  \/ Interrupt

SpecVerify == InitVerify /\ [][NextVerify]_vars

\* ------------------------------------------------ cleanup called twice
NextTwice == Next \/ CleanupAgain

SpecTwice == Init /\ [][NextTwice]_vars

\* --------------------------------- validate_metrics_changes on its own
\* Values of a cumulative counter: absent from the group, or 0..MaxCount.
Counts == {NoField} \cup 0..MaxCount

\* First snapshots: success_rate and average_latency_ms of the first snapshot
\* are not read by validate_metrics_changes and are left out.
InitialSnapshots ==
  {NoGroup} \cup
  {Snapshot("group", a, su, f, b, NoField, NoField) :
     a \in Counts, su \in Counts, f \in Counts, b \in Counts}

\* Second snapshots: the rate just below and at the threshold, the latency
\* zero and positive, or either field absent.
FinalSnapshots ==
  {NoGroup} \cup
  {Snapshot("group", c[1], c[2], c[3], c[4], r, l) :
     c \in Counts \X Counts \X Counts \X Counts,
     r \in {NoField, MIN_SUCCESS_RATE - 1, MIN_SUCCESS_RATE},
     l \in {NoField, 0, 1}}

\* The state in which verify_performance_metrics calls
\* validate_metrics_changes, for every pair of snapshots.
InitMetrics ==
  /\ harness = "PM"
  /\ pc = "pm_validate"
  /\ pstate = [s \in Services |-> "running"]
  /\ registered = [s \in Services |-> TRUE]
  /\ probed = [s \in Services |-> FALSE]
  /\ accepted = [s \in Services |-> FALSE]
  /\ sigterm = [s \in Services |-> FALSE]
  /\ sigkill = [s \in Services |-> FALSE]
  /\ nSignals = 0
  /\ attempt = 0
  /\ idx = NumScenarios("PM") + 1
  /\ success = 0
  /\ attempted = [i \in 1..NumScenarios("PM") |-> i]
  /\ trafficDone = TRUE
  /\ throttled = TRUE
  /\ nQuery = 2
  /\ postQueries = 1
  /\ nMutation = 0
  /\ stepResults = << <<"start_orchestrator", TRUE>>, <<"start_proxy_agent", TRUE>>,
                      <<"start_test_server", TRUE>> >>
  /\ startFailed = FALSE
  /\ pending = "none"
  /\ cleanups = 0
  /\ interrupts = 0
  /\ runResult = "none"
  /\ exitCode = -1
  /\ requests_list = <<>>
  /\ id_matrix = [i \in 1..Len(SCENARIOS) |-> 0]
  /\ all_good = TRUE
  /\ verifyResult = "none"
  /\ data = Unset
  /\ passed = {}
  /\ test_requests = 0
  /\ bodyless = FALSE
  /\ initial_metrics \in InitialSnapshots
  /\ final_metrics \in FinalSnapshots
  /\ reported = <<>>
  /\ validated = "none"
  /\ results = <<>>
  /\ endpointOk = TRUE
  /\ listed = -1
  /\ detailId = "none"
  /\ echoes = <<>>
  /\ request_detail = NoDetail
  /\ message = NoMessage
  /\ handled = <<>>
  /\ stdout = <<>>
  /\ textbuf = <<>>
  /\ failedRequests = 0
  /\ workspace = "fresh"

NextMetrics == PMValidate \/ PMVerifyReturn

SpecMetrics == InitMetrics /\ [][NextMetrics]_vars



\* ------------------------------------------------ the GraphQL test suite
\* main of test_graphql_queries.py against an endpoint that answers each
\* request in any of the ways of ReplyKinds.
InitSuite ==
  /\ harness = "GQ"
  /\ pc = "gq_test"
  /\ Fresh

NextSuite == (\E i \in 1..Len(tests) : RunTest(i)) \/ Summary \/ SuiteInterrupt

SpecSuite == InitSuite /\ [][NextSuite]_vars

\* ---------------------------------------- generate_traffic on its own
\* The state in which IntegrationTest.run calls generate_traffic:
\* start_services has returned True.
InitTraffic ==
  /\ harness = "IT"
  /\ pc = "it_traffic"
  /\ pstate = [s \in Services |-> "listening"]
  /\ registered = [s \in Services |-> TRUE]
  /\ probed = [s \in Services |-> s # "server"]
  /\ accepted = [s \in Services |-> FALSE]
  /\ sigterm = [s \in Services |-> FALSE]
  /\ sigkill = [s \in Services |-> FALSE]
  /\ nSignals = 0
  /\ attempt = 0
  /\ idx = 1
  /\ success = 0
  /\ attempted = <<>>
  /\ trafficDone = FALSE
  /\ throttled = TRUE
  /\ nQuery = 0
  /\ postQueries = 0
  /\ nMutation = 1
  /\ stepResults = << <<"start_services", TRUE>> >>
  /\ startFailed = FALSE
  /\ pending = "none"
  /\ cleanups = 0
  /\ interrupts = 0
  /\ runResult = "none"
  /\ exitCode = -1
  /\ requests_list = <<>>
  /\ id_matrix = [i \in 1..Len(SCENARIOS) |-> 0]
  /\ all_good = TRUE
  /\ verifyResult = "none"
  /\ data = Unset
  /\ passed = {}
  /\ test_requests = 0
  /\ bodyless = FALSE
  /\ initial_metrics = NoSnapshot
  /\ final_metrics = NoSnapshot
  /\ reported = <<>>
  /\ validated = "none"
  /\ results = <<>>
  /\ endpointOk = TRUE
  /\ listed = -1
  /\ detailId = "none"
  /\ echoes = <<>>
  /\ request_detail = NoDetail
  /\ message = NoMessage
  /\ handled = <<>>
  /\ stdout = <<>>
  /\ textbuf = <<>>
  /\ failedRequests = 0
  /\ workspace = "fresh"

\* One iteration of the request loop, with the requests that failed counted
\* beside the driver's own count.
TrafficObserved ==
  /\ \E o \in Outcomes :
       /\ TrafficStep(o)
       /\ failedRequests' = failedRequests + (IF o = "ok" THEN 0 ELSE 1)
  /\ UNCHANGED <<harness, hostVars, request_detail, idleVars, procVars, qryVars, verVars,
               interrupts, exitCode>>

NextTraffic ==
  \/ TrafficObserved \/ TrafficReturn
  \/ \E s \in Services : EnvExit(s)

SpecTraffic == InitTraffic /\ [][NextTraffic]_vars

\* ------------------------- verify_response_body_capture on its own
\* ResponseBodyCaptureTest after generate_test_traffic returned True.
InitChecks ==
  /\ harness = "RB"
  /\ pc = "rb_verify"
  /\ pstate = [s \in Services |-> IF s = "server" THEN "none" ELSE "listening"]
  /\ registered = [s \in Services |-> s # "server"]
  /\ probed = [s \in Services |-> s # "server"]
  /\ accepted = [s \in Services |-> s # "server"]
  /\ sigterm = [s \in Services |-> FALSE]
  /\ sigkill = [s \in Services |-> FALSE]
  /\ nSignals = 0
  /\ attempt = 0
  /\ idx = 1
  /\ success = 0
  /\ attempted = [i \in 1..NumScenarios("RB") |-> i]
  /\ trafficDone = TRUE
  /\ throttled = TRUE
  /\ nQuery = 0
  /\ postQueries = 0
  /\ nMutation = 1
  /\ stepResults = << <<"start_orchestrator", TRUE>>, <<"start_proxy_agent", TRUE>>,
                    <<"disable_interception", TRUE>>,
                    <<"generate_test_traffic", TRUE>> >>
  /\ startFailed = FALSE
  /\ pending = "none"
  /\ cleanups = 0
  /\ interrupts = 0
  /\ runResult = "none"
  /\ exitCode = -1
  /\ requests_list = <<>>
  /\ id_matrix = [i \in 1..Len(SCENARIOS) |-> 0]
  /\ all_good = TRUE
  /\ verifyResult = "none"
  /\ data = Unset
  /\ passed = {}
  /\ test_requests = 0
  /\ bodyless = FALSE
  /\ initial_metrics = NoSnapshot
  /\ final_metrics = NoSnapshot
  /\ reported = <<>>
  /\ validated = "none"
  /\ results = <<>>
  /\ endpointOk = TRUE
  /\ listed = -1
  /\ detailId = "none"
  /\ echoes = <<>>
  /\ request_detail = NoDetail
  /\ message = NoMessage
  /\ handled = <<>>
  /\ stdout = <<>>
  /\ textbuf = <<>>
  /\ failedRequests = 0
  /\ workspace = "fresh"

\* One iteration of the loop over the test requests, with the reply it read
\* and the checks_passed it computed kept.
RBDetailObserved ==
  /\ \E kind \in RBDetailKinds, body \in RBBodies, headers \in BOOLEAN :
       /\ RBVerifyDetailOf(kind, body, headers)
       /\ request_detail' =
            [kind |-> kind, responseBody |-> body, responseHeaders |-> headers,
             checks_passed |-> IF kind = "detail"
                               THEN ChecksPassed(body, headers) ELSE 0]
  /\ UNCHANGED <<harness, hostVars, failedRequests, idleVars>>

NextChecks ==
  \/ RBVerifyList \/ RBDetailObserved
  \/ \E s \in Services : EnvExit(s)

SpecChecks == InitChecks /\ [][NextChecks]_vars

\* ------------------------------------------- the native-host debug stub
\* debug-native-host.py.  A received JSON object as handle_message reads it:
\* its "id" (or none), whether "action" is "ping", whether "module" is
\* "system".
\* (kind "dict"), or a JSON value that is not an object (a list, a string, a
\* number: kind "nondict").
Messages ==
  [kind : {"dict"}, id : {"absent", "a", "b"}, action : {"ping", "other"},
   module : {"system", "other"}]
  \cup {[kind |-> "nondict", id |-> "absent", action |-> "other",
          module |-> "other"]}

\* What reaches standard output, in units: a line of text written by print
\* ("text"), the 4 bytes of struct.pack('I', n) ("len"), one unit of encoded
\* JSON ("json").
Unit(t, n, b) == [t |-> t, n |-> n, b |-> b]

\* message.get("id", "unknown").
ResponseId(m) == IF m.id = "absent" THEN "unknown" ELSE m.id

\* json.dumps(response).encode('utf-8') for the response handle_message
\* builds: the "system" data replaces the "ping" data, which replaces the
\* default data with the received message in it.
DumpResponse(m) ==
  LET Json(b) == Unit("json", 0, b)
      received_message ==
        <<Json("{")>>
        \o (IF m.id = "absent" THEN <<>> ELSE <<Json("id"), Json(m.id)>>)
        \o (IF m.action = "ping"
            THEN <<Json("action"), Json("ping")>> ELSE <<>>)
        \o (IF m.module = "system"
            THEN <<Json("module"), Json("system")>> ELSE <<>>)
        \o <<Json("}")>>
  IN <<Json("{"), Json("id"), Json(ResponseId(m)), Json("success"),
       Json("data"), Json("{")>>
     \o (IF m.module = "system" THEN <<Json("status"), Json("version")>>
         ELSE IF m.action = "ping" THEN <<Json("pong"), Json("timestamp")>>
         ELSE <<Json("message"), Json("timestamp"), Json("received_message")>>
              \o received_message)
     \o <<Json("}"), Json("}")>>

\* print(...), one line per string: sys.stdout keeps the text, or (line
\* buffered, or its buffer full) passes all it holds on to the descriptor.
\* The result is <<what has reached the descriptor, what is held>>.
PrintLines(out, buf, lines, flush) ==
  LET text == [k \in 1..Len(lines) |-> Unit("text", 0, lines[k])]
  IN IF flush THEN <<out \o buf \o text, <<>>>> ELSE <<out, buf \o text>>

\* The interpreter exits with the given status and flushes sys.stdout.
HostExit(out, buf, status) ==
  /\ stdout' = out \o buf
  /\ textbuf' = <<>>
  /\ exitCode' = status
  /\ pc' = "done"
  /\ message' = NoMessage

\* What the stub leaves alone.
HostFrame ==
  UNCHANGED <<harness, request_detail, failedRequests, idleVars, procVars,
              attempt, idx, trafVars, qryVars, verVars, retVars, pending>>

\* debug_native_host up to the main loop: the eight print calls.
HostStart ==
  /\ harness = "NH" /\ pc = "nh_start"
  /\ \E flush \in BOOLEAN :
       LET p == PrintLines(stdout, textbuf,
                  <<"=== Proxxy Native Host Debug Script ===", "Process ID",
                    "Script path", "Working directory",
                    "Waiting for Chrome Extension connection...",
                    "Send messages via stdin, receive via stdout",
                    "Press Ctrl+C to exit", "=====">>, flush)
       IN stdout' = p[1] /\ textbuf' = p[2]
  /\ pc' = "nh_receive"
  /\ UNCHANGED <<message, handled, exitCode, interrupts>>
  /\ HostFrame

\* message = receive_message() and `if message is None: break`.  The read
\* finds end of input or a JSON null (None, the loop ends and the function
\* returns), fails (short header, short body, bad UTF-8, bad JSON: the
\* error is printed, None), or yields a JSON value.
HostReceive ==
  /\ harness = "NH" /\ pc = "nh_receive"
  /\ \/ HostExit(stdout, textbuf, 0)
     \/ \E flush \in BOOLEAN :
          LET p == PrintLines(stdout, textbuf,
                              <<"Error receiving message">>, flush)
          IN HostExit(p[1], p[2], 0)
     \/ /\ Len(handled) < MaxMessages
        /\ message' \in Messages
        /\ pc' = "nh_handle"
        /\ UNCHANGED <<stdout, textbuf, exitCode>>
  /\ UNCHANGED <<handled, interrupts>>
  /\ HostFrame

\* handle_message(message): two prints around the building of the response,
\* then send_message: the packed length, then the encoded response.  A value without .get raises AttributeError after the
\* first print: `except Exception` prints the error and calls sys.exit(1).
HostHandle ==
  /\ harness = "NH" /\ pc = "nh_handle"
  /\ \E f1, f2 \in BOOLEAN :
       LET p1 == PrintLines(stdout, textbuf, <<"Received">>, f1)
       IN IF message.kind = "nondict"
          THEN LET p2 == PrintLines(p1[1], p1[2], <<"Fatal error">>, f2)
               IN HostExit(p2[1], p2[2], 1)
          ELSE LET p2 == PrintLines(p1[1], p1[2], <<"Sending">>, f2)
                   encoded == DumpResponse(message)
               IN /\ stdout' = p2[1] \o <<Unit("len", Len(encoded), "")>>
                                      \o encoded
                  /\ textbuf' = p2[2]
                  /\ message' = NoMessage
                  /\ pc' = "nh_receive"
                  /\ UNCHANGED exitCode
  /\ handled' = Append(handled, message)
  /\ UNCHANGED interrupts
  /\ HostFrame

\* Ctrl+C inside the main loop: `except KeyboardInterrupt` prints and the
\* function returns.
HostInterrupt ==
  /\ harness = "NH" /\ pc \in {"nh_receive", "nh_handle"}
  /\ interrupts < MaxInterrupts
  /\ interrupts' = interrupts + 1
  /\ \E flush \in BOOLEAN :
       LET p == PrintLines(stdout, textbuf,
                           <<"Shutting down debug host...">>, flush)
       IN HostExit(p[1], p[2], 0)
  /\ UNCHANGED handled
  /\ HostFrame

InitHost ==
  /\ harness = "NH"
  /\ pc = "nh_start"
  /\ Fresh

NextHost == HostStart \/ HostReceive \/ HostHandle \/ HostInterrupt

SpecHost == InitHost /\ [][NextHost]_vars

\* ------------------------------------------------------------------- claims
Launched(s) == pstate[s] # "none"
Gone(s) == pstate[s] \in {"none", "exited"}
CleanupPcs == {"cl_term", "cl_wait", "finish", "done"}
AllScenarios == [i \in 1..NumScenarios(harness) |-> i]
StartOk == \E k \in 1..Len(stepResults) : stepResults[k] = <<"start_services", TRUE>>
RBSteps ==
  << <<"start_orchestrator", TRUE>>, <<"start_proxy_agent", TRUE>>,
     <<"disable_interception", TRUE>>, <<"generate_test_traffic", TRUE>>,
     <<"verify_response_body_capture", TRUE>> >>

\* C1: no scenario request is issued until every launched service has passed
\* a readiness probe that observed it answering.
C1_ReadyBeforeTraffic ==
  attempted # <<>> => \A s \in Services : Launched(s) => probed[s]

\* C2: once a startup step has returned False the run issues no scenario
\* request and no verification query; the controller is only in the report
\* and cleanup positions.
C2_StartupFailureAborts ==
  startFailed =>
    /\ attempted = <<>>
    /\ nQuery = 0
    /\ pc \in {"it_report", "it_input"} \cup CleanupPcs

C2_Witness ==
  /\ startFailed /\ pc = "done"
  /\ \E s \in Services : sigterm[s]

\* C3: on every path that is not interrupted (success, startup failure,
\* traffic failure, verification failure, exception in a phase) cleanup is
\* entered exactly once, no phase action follows it, and when it is over
\* every launched process has exited.
C3_CleanupOnce ==
  /\ cleanups <= 1
  /\ cleanups = 1 => pc \in CleanupPcs
  /\ (pc \in {"finish", "done"} /\ runResult # "notrun") => cleanups = 1
  /\ (pc \in {"finish", "done"} /\ interrupts = 0) => \A s \in Services : Gone(s)

C3_Witness ==
  /\ pc = "done" /\ interrupts = 0 /\ verifyResult = "raised" /\ cleanups = 1
  /\ \A s \in Services : pstate[s] = "exited"
  /\ \E s \in Services : sigkill[s]

\* C4: whenever KeyboardInterrupts are delivered, every launched process is
\* still terminated (and killed if it does not exit), so none is left alive
\* at the end, and cleanup is not run twice.
C4_InterruptStillStopsAll ==
  pc = "done" => (cleanups <= 1 /\ \A s \in Services : Gone(s))

\* C5: the IntegrationTest process exits 0 iff startup succeeded and
\* verify_capture returned True, and 1 otherwise.
C5_ITExitStatus ==
  (harness = "IT" /\ pc = "done" /\ interrupts = 0) =>
    exitCode = (IF pending = "none" /\ StartOk /\ verifyResult = "true"
                THEN 0 ELSE 1)

\* C6: when ResponseBodyCaptureTest.run returns, it returns True iff the five
\* steps returned True in order; main exits 0 when run returned True and 1
\* otherwise; PerformanceMonitoringTest's main gives 0 exactly when run_test
\* returned True.
C6_Verdict ==
  /\ (harness = "RB" /\ runResult \in {"true", "false"}) =>
       (runResult = "true" <=> stepResults = RBSteps)
  /\ (harness = "RB" /\ pc = "done") =>
       (exitCode \in {0, 1} /\ (exitCode = 0 <=> runResult = "true"))
  /\ (harness = "PM" /\ pc = "done") =>
       (exitCode = 0 <=> runResult = "true")

C6_Witness ==
  /\ harness = "RB" /\ pc = "done"
  /\ exitCode = 0 /\ stepResults = RBSteps

\* C7: the traffic driver requests every scenario once, in list order; a
\* failed request neither ends the loop nor leaves the driver as an
\* exception: only a KeyboardInterrupt ends the loop early.
C7_AllScenariosAttempted ==
  /\ Len(attempted) <= NumScenarios(harness)
  /\ attempted = SubSeq(AllScenarios, 1, Len(attempted))
  /\ trafficDone => attempted = AllScenarios
  /\ (attempted # <<>> /\ pc # TrafficPc(harness) /\ interrupts = 0)
       => attempted = AllScenarios

C7_Witness ==
  /\ pc = SettlePc(harness)
  /\ attempted = AllScenarios
  /\ success = 0
  /\ interrupts = 0

\* C8: once the traffic driver has returned, the run goes on to a
\* verification query, even when every request failed.
C8_VerificationAfterTraffic ==
  (pc = "done" /\ trafficDone /\ interrupts = 0) => postQueries > 0

\* C9: verify_capture never raises, whatever the query interface replies.
C9_VerifyNeverRaises == verifyResult # "raised"

\* C10: after the list pass, a fragment contained in some returned URL is
\* mapped to the requestId of the first such record of the list.
C10_FirstMatchWins ==
  \A i \in 1..Len(SCENARIOS) :
    LET hits == {k \in 1..Len(requests_list) :
                   Contains(SCENARIOS[i][2], requests_list[k].url)}
    IN hits # {} =>
         id_matrix[i] = requests_list[CHOOSE k \in hits : \A j \in hits : k <= j].requestId

\* C11: no record id is mapped to a fragment registered later than another
\* fragment that matched the same record: once a record's URL contains an
\* earlier fragment of SCENARIOS, a later (shorter) fragment does not claim it.
C11_EarlierFragmentClaims ==
  \A k \in 1..Len(requests_list) : \A j \in 1..Len(SCENARIOS) :
    id_matrix[j] = requests_list[k].requestId =>
      ~\E i \in 1..(j - 1) : Contains(SCENARIOS[i][2], requests_list[k].url)

\* C12: in verify_capture a critical scenario without a correlation entry
\* makes the result False and gets no detail query, and the criticals after
\* it are still checked: the detail queries sent are exactly one for each
\* correlated critical reached so far.
C12_MissingCriticalFails ==
  harness = "IT" =>
    /\ pc = "it_verify_detail" =>
         /\ nQuery = 1 + Cardinality({j \in 1..(idx - 1) : id_matrix[criticals[j]] # 0})
         /\ (\E j \in 1..(idx - 1) : id_matrix[criticals[j]] = 0) => ~all_good
    /\ verifyResult \in {"true", "false"} =>
         /\ nQuery = 1 + Cardinality({j \in 1..Len(criticals) : id_matrix[criticals[j]] # 0})
         /\ (\E j \in 1..Len(criticals) : id_matrix[criticals[j]] = 0)
              => verifyResult = "false"

C12_Witness ==
  /\ pc = "done" /\ verifyResult = "false"
  /\ id_matrix[1] = 0 /\ id_matrix[4] # 0 /\ id_matrix[3] = 0
  /\ nQuery = 2 /\ passed = {4}

\* The content rule of critical scenario ep on the detail reply d.
C13_Rule(ep, d) ==
  /\ d.kind = "body"
  /\ CASE ep = 1 -> d.marker
       [] ep = 4 -> d.echo
       [] ep = 3 -> d.len > LARGE_THRESHOLD

\* C13: when all queries are answered verify_capture returns True iff each of
\* the three criticals is correlated and passes its content rule (json: the
\* marker, echo: the test_id, large: longer than the threshold); the entries
\* of the non-critical scenarios play no part.
C13_TrueIffCriticalsPass ==
  harness = "IT" =>
    /\ (pc \in {"it_verify_detail", "it_verify_ret"} /\ idx > 1) =>
         LET ep == criticals[idx - 1] IN
           /\ ep \in passed <=> (id_matrix[ep] # 0 /\ C13_Rule(ep, data))
           /\ all_good <=> \A j \in 1..(idx - 1) : criticals[j] \in passed
    /\ verifyResult \in {"true", "false"} =>
         (verifyResult = "true" <=> passed = {criticals[j] : j \in 1..Len(criticals)})

C13_Witness ==
  /\ pc = "done" /\ verifyResult = "true" /\ passed = {1, 3, 4}
  /\ id_matrix[2] = 0 /\ id_matrix[5] # 0

\* C15: the large-body check fails for every captured body of at most 10000
\* characters and passes for every body of at least 10001.
C15_LargeThreshold ==
  (harness = "IT" /\ pc = "it_verify_ret" /\ id_matrix[3] # 0) =>
    /\ data.len <= 10000 => 3 \notin passed
    /\ (data.kind = "body" /\ data.len >= 10001) => 3 \in passed

C15_Witness ==
  /\ pc = "it_verify_ret" /\ id_matrix[3] # 0
  /\ data.kind = "body" /\ data.len = 10000 /\ 3 \notin passed /\ ~all_good

\* C14: in ResponseBodyCaptureTest, if any matched test request has a
\* missing, null or empty responseBody, or its detail query fails,
\* verify_response_body_capture returns False and the run's verdict is Failed.
C14_BodylessFails ==
  (harness = "RB" /\ bodyless) =>
    /\ \A k \in 1..Len(stepResults) :
         stepResults[k] # <<"verify_response_body_capture", TRUE>>
    /\ runResult # "true"
    /\ exitCode # 0

\* A field of a group as a number, a missing field counting as 0.
C16_Val(v) == IF v = NoField THEN 0 ELSE v

\* C16: for two snapshots that both have the body_capture group,
\* validate_metrics_changes returns True iff attempts, successes and
\* total_bytes_captured all grew, the final success_rate is at least 50 and
\* the final average_latency_ms is positive; it returns False when either
\* snapshot lacks the group.
C16_ValidateIffFive ==
  (harness = "PM" /\ pc = "pm_verify_ret") =>
    IF initial_metrics.kind = "group" /\ final_metrics.kind = "group"
    THEN validated = "true" <=>
           /\ C16_Val(final_metrics.attempts) - C16_Val(initial_metrics.attempts) > 0
           /\ C16_Val(final_metrics.successes) - C16_Val(initial_metrics.successes) > 0
           /\ C16_Val(final_metrics.total_bytes_captured)
                - C16_Val(initial_metrics.total_bytes_captured) > 0
           /\ C16_Val(final_metrics.success_rate) >= 50
           /\ C16_Val(final_metrics.average_latency_ms) > 0
    ELSE validated = "false"

C16_Witness ==
  /\ pc = "pm_verify_ret" /\ validated = "true"
  /\ initial_metrics.kind = "group" /\ initial_metrics.attempts = NoField
  /\ final_metrics.success_rate = 50 /\ final_metrics.failures = NoField

\* C17: every call of validate_metrics_changes on two snapshots with the
\* group evaluates and reports all five assertions, also after one failed.
C17_AllFiveReported ==
  (harness = "PM" /\ pc = "pm_verify_ret"
     /\ initial_metrics.kind = "group" /\ final_metrics.kind = "group")
    => Len(reported) = 5

\* C18: a cumulative counter of the group that is smaller in the second
\* snapshot than in the first makes the metrics verification return False.
C18_NegativeDeltaFails ==
  (harness = "PM" /\ pc = "pm_verify_ret"
     /\ initial_metrics.kind = "group" /\ final_metrics.kind = "group"
     /\ \/ C16_Val(final_metrics.attempts) < C16_Val(initial_metrics.attempts)
        \/ C16_Val(final_metrics.successes) < C16_Val(initial_metrics.successes)
        \/ C16_Val(final_metrics.failures) < C16_Val(initial_metrics.failures)
        \/ C16_Val(final_metrics.total_bytes_captured)
             < C16_Val(initial_metrics.total_bytes_captured))
    => validated = "false"

\* C19: a second call of cleanup on the same run, in each harness, raises
\* nothing, delivers no terminate and no kill signal, and leaves every
\* process it handles as the first call left it.
C19_SecondCleanupIdle ==
  [][cleanups = 2 =>
       /\ nSignals' = nSignals
       /\ sigterm' = sigterm /\ sigkill' = sigkill
       /\ \A s \in Services : registered[s] => pstate'[s] = pstate[s]
       /\ interrupts' = interrupts => pending' = pending]_vars

C19_Witness ==
  /\ pc = "done" /\ cleanups = 2 /\ pending = "none" /\ interrupts = 0
  /\ \E s \in Services : sigkill[s]
  /\ \E s \in Services : registered[s] /\ ~sigterm[s]

\* A round of the polling loop at position p: a step of the controller that
\* is neither an interrupt nor a step of a service.
C20_Round(p) == pc = p /\ interrupts' = interrupts /\ pstate' = pstate

\* What a round of the loop for service s with budget `limit` does: it
\* succeeds only when every port of s accepts a connection, otherwise counts
\* the attempt, and returns False from start_services on the last one.
C20_Loop(s, p, limit) ==
  /\ pc = p => attempt < limit
  /\ C20_Round(p) =>
       IF pstate[s] = "listening"
       THEN probed'[s] /\ pc' # p /\ ~startFailed'
       ELSE /\ probed'[s] = probed[s]
            /\ IF attempt + 1 < limit
               THEN pc' = p /\ attempt' = attempt + 1
               ELSE stepResults' = Append(stepResults, <<"start_services", FALSE>>)

\* C20: start_services probes the control plane at most 15 times (both
\* ports 9090 and 50051 accepting in the same attempt) and the relay port at
\* most 10 times; it returns True only after one successful attempt of each
\* and False as soon as a budget is used up.
C20_BoundedProbes ==
  [][harness = "IT" =>
       /\ C20_Loop("orch", "it_probe_orch", 15)
       /\ C20_Loop("agent", "it_probe_agent", 10)
       /\ stepResults' = Append(stepResults, <<"start_services", TRUE>>)
            => (probed["orch"] /\ probed["agent"])]_vars

C20_Witness ==
  /\ harness = "IT" /\ pc = "it_probe_orch" /\ attempt = 14
  /\ pstate["orch"] = "http" /\ ~probed["orch"]

\* C21 (RB): start_orchestrator and start_proxy_agent return True only if
\* one of their HTTP probe attempts received the status the routine accepts
\* (200 or 405 from the query endpoint, 200 through the relay); five
\* attempts that all end without it make the routine return False.
C21_Step(s) == IF s = "orch" THEN "start_orchestrator" ELSE "start_proxy_agent"
C21_ReadyOnlyOnAcceptedStatus ==
  harness = "RB" =>
    \A s \in {"orch", "agent"} :
      (\E i \in 1..Len(stepResults) : stepResults[i] = <<C21_Step(s), TRUE>>)
        => accepted[s]

\* C22: when a launched service has exited before its startup routine has
\* declared it ready, the next check the routine makes reports failure for
\* it: no further readiness attempt is made and it is never declared ready.
\* Holds at every polling position of the three harnesses.
C22_Polls ==
  { <<"it_probe_orch", "orch">>, <<"it_sleep_server", "server">>,
    <<"it_probe_agent", "agent">>,
    <<"rb_poll_orch", "orch">>, <<"rb_probe_orch", "orch">>,
    <<"rb_poll_agent", "agent">>, <<"rb_probe_agent", "agent">>,
    <<"pm_poll_orch", "orch">>, <<"pm_poll_agent", "agent">>,
    <<"pm_poll_server", "server">> }
C22_ExitedFailsAtNextCheck ==
  [][\A q \in C22_Polls :
       ( /\ pc = q[1]
         /\ pstate[q[2]] = "exited"
         /\ interrupts' = interrupts
         /\ <<pc, attempt, stepResults>>' # <<pc, attempt, stepResults>> )
       => /\ Len(stepResults') = Len(stepResults) + 1
          /\ stepResults'[Len(stepResults')][2] = FALSE]_vars

\* C23 (IT): run reaches cleanup through harness steps of bounded duration
\* only: once startup has failed or the verdict has been printed, the next
\* step of the runner enters cleanup, and no position of run waits for the
\* operator or another external event.
C23_CleanupFollowsReport ==
  [][( /\ harness = "IT"
       /\ pc = "it_report"
       /\ pc' # pc
       /\ interrupts' = interrupts )
     => pc' \in CleanupPcs]_vars

\* C24: an exception other than KeyboardInterrupt raised inside a phase is
\* caught by the runner, which returns a Failed verdict and then cleans up;
\* no such exception is still in flight when run is left.
C24_ExceptionCaughtByRunner ==
  (interrupts = 0 /\ pc \in {"finish", "done"})
    => (pending = "none" /\ runResult # "raised")

\* C25 (GraphQL suite): when the endpoint answers every query and mutation
\* with 200 and a body without "errors", each of the 11 tests returns True
\* and the suite exits 0; it exits 1 only if some request failed or
\* returned errors.
C25_AllAnsweredAllPass ==
  (harness = "GQ" /\ pc = "done" /\ interrupts = 0)
    => /\ endpointOk => ( /\ \A k \in 1..Len(results) : results[k][2]
                          /\ Failed(results) = 0
                          /\ exitCode = 0 )
       /\ exitCode = 1 => ~endpointOk

\* C26: in the runners that start the three kinds of service (IT, PM) the
\* spawn order is orchestrator, test server, agent: the test server is
\* spawned only after the orchestrator, and the agent only after the test
\* server.
C26_SpawnOrder ==
  harness \in {"IT", "PM"} =>
    /\ Launched("server") => Launched("orch")
    /\ Launched("agent") => Launched("server")

\* C27: in every state of a run, every process that was spawned and has not
\* stopped is recorded in the registry (self.procs, the handle fields), the
\* statement that spawns and records it taken as one step; and after a failed
\* startup cleanup leaves no spawned process running.
C27_Recording ==
  {"it_append_orch", "it_append_server", "it_append_agent",
   "rb_assign_orch", "rb_assign_agent",
   "pm_assign_orch", "pm_assign_agent", "pm_assign_server"}
C27_RegistryComplete ==
  /\ pc \notin C27_Recording =>
       \A s \in Services : (Launched(s) /\ pstate[s] # "exited") => registered[s]
  /\ (pc = "done" /\ startFailed) => \A s \in Services : Gone(s)

\* C28: in cleanup a kill reaches a process only from the wait that follows
\* its terminate: the process was sent terminate first and has not exited
\* when the wait ends; a process that has exited by then is not sent a kill.
C28_KillOnlyAfterGrace ==
  [][\A s \in Services :
       (sigkill'[s] /\ ~sigkill[s])
         => /\ pc = "cl_wait"
            /\ CleanupOrder(harness)[idx] = s
            /\ sigterm[s]
            /\ pstate[s] # "exited"]_vars

C28_Witness ==
  /\ pc = "done"
  /\ \E s, t \in Services :
       /\ sigterm[s] /\ sigkill[s]
       /\ sigterm[t] /\ ~sigkill[t] /\ pstate[t] = "exited"

\* C29: in every runner that generates scenario traffic, before the first
\* scenario request is sent a toggleInterception(enabled=false) mutation has
\* been issued and, where the runner reads the reply (disable_interception),
\* has returned enabled=false.
C29_InterceptionOffBeforeTraffic ==
  attempted # <<>> =>
    /\ nMutation > 0
    /\ harness = "RB" =>
         \E k \in 1..Len(stepResults) :
           stepResults[k] = <<"disable_interception", TRUE>>

\* C30: in every runner that launches the orchestrator with a project name,
\* a stale workspace directory of that project is removed before the
\* orchestrator is spawned: the orchestrator never starts on a directory
\* left by an earlier run.
C30_StaleWorkspaceRemoved ==
  (harness \in Harnesses /\ Launched("orch")) => workspace # "reused"

\* C31: between two consecutive scenario requests the traffic driver performs
\* its throttle delay, whether the earlier request succeeded or failed: when
\* the loop is about to issue a request, every request issued so far was
\* followed by the delay.
C31_ThrottleBetweenRequests ==
  (pc = TrafficPc(harness) /\ harness \in Harnesses)
    => throttled

\* C32 (IT): the success count of generate_traffic is the number of scenarios
\* whose request did not fail, a timeout, a refused connection and an
\* unexpected status each being a failure; it lies between 0 and the number
\* of scenarios.
C32_SuccessCountsUnfailed ==
  (harness = "IT" /\ pc \in {"it_traffic", "it_settle"})
    => /\ success = Len(attempted) - failedRequests
       /\ success \in 0..Len(SCENARIOS)

\* C33 (PM): verify_performance_metrics runs before-snapshot, traffic,
\* settle wait, after-snapshot, assertions, in that order: no scenario
\* request is sent unless the before-snapshot was fetched, the after-snapshot
\* is fetched only after the last scenario request, the assertions run on
\* two fetched snapshots, and a snapshot that cannot be fetched makes the
\* function return False.
C33_Order ==
  harness = "PM" =>
    /\ pc = "pm_traffic" => (initial_metrics # NoSnapshot /\ nQuery = 1)
    /\ attempted # <<>> => nQuery >= 1
    /\ (postQueries > 0 \/ final_metrics # NoSnapshot)
         => (attempted = AllScenarios /\ trafficDone)
    /\ pc \in {"pm_validate", "pm_verify_ret"}
         => (initial_metrics # NoSnapshot /\ final_metrics # NoSnapshot /\ nQuery = 2)
    /\ (\E k \in 1..Len(stepResults) :
          stepResults[k] = <<"verify_performance_metrics", TRUE>>)
         => (nQuery = 2 /\ attempted = AllScenarios)
C33_SnapshotOrder ==
  [][ /\ C33_Order'
      /\ ( /\ harness = "PM"
           /\ pc \in {"pm_initial_metrics", "pm_final_metrics"}
           /\ nQuery' = nQuery + 1
           /\ (IF pc = "pm_initial_metrics"
               THEN initial_metrics' ELSE final_metrics') = NoSnapshot )
         => stepResults' =
              Append(stepResults, <<"verify_performance_metrics", FALSE>>) ]_vars

C33_Witness ==
  /\ harness = "PM" /\ pc = "pm_validate"
  /\ initial_metrics # NoSnapshot /\ final_metrics # NoSnapshot
  /\ attempted = AllScenarios /\ nQuery = 2
  /\ interrupts = 0

\* C34 (IT): the settling wait comes after the last scenario request and
\* before the list query; verify_capture sends the list query once and at
\* most one detail query per critical scenario, and repeats no query
\* whatever the replies are.
C34_SettleThenQueryOnce ==
  [][harness = "IT" =>
       /\ nQuery' <= 1 + Len(criticals)
       /\ nQuery' > 0 => (trafficDone' /\ attempted' = AllScenarios)
       /\ nQuery' # nQuery =>
            /\ nQuery' = nQuery + 1
            /\ \/ /\ pc = "it_verify_list"
                  /\ nQuery = 0
                  /\ pc' # "it_verify_list"
               \/ /\ pc = "it_verify_detail"
                  /\ nQuery <= idx
                  /\ pc' # "it_verify_detail" \/ idx' = idx + 1]_vars

C34_Witness ==
  /\ harness = "IT" /\ pc = "done" /\ interrupts = 0
  /\ trafficDone /\ attempted = AllScenarios
  /\ nQuery = 3 /\ verifyResult = "false"

\* C35 (GraphQL suite): test_request_detail asks for the detail of a real
\* record: when its list query succeeded and listed at least one record the
\* detail query carries the requestId of the first record, and the dummy id
\* is used only when the list query failed or listed nothing.
C35_DetailOfRealRecord ==
  (harness = "GQ" /\ detailId # "none")
    => /\ listed > 0 => detailId = "first_request_id"
       /\ detailId = "dummy_request_id" => listed <= 0

\* C36 (GraphQL suite): test_toggle_interception passes only if the mutation
\* sent with enabled=false echoed enabled=false and the one sent afterwards
\* with enabled=true echoed enabled=true.
C36_ToggleEchoChecked ==
  (harness = "GQ" /\ Len(results) >= 6 /\ results[6][2])
    => echoes = <<"false", "true">>

\* The detail query just answered returned a request object whose
\* responseBody is null, empty or whitespace only.
C37_Blank ==
  /\ request_detail.kind = "detail"
  /\ request_detail.responseBody \in {"null", "empty", "blank"}

\* C37 (ResponseBodyCaptureTest): a matched record whose responseBody is
\* null, empty or whitespace only passes at most 2 of the 4 checks, whatever
\* its response headers are, and is not counted as a successful capture:
\* success_count stays as it was, and after the last record the verdict is the
\* one the records before it earned.
C37_BlankBodyNeverCounted ==
  [][ (pc = "rb_verify_detail" /\ nQuery' = nQuery + 1 /\ C37_Blank') =>
        /\ request_detail'.checks_passed <= 2
        /\ pc' = "rb_verify_detail" => success' = success
        /\ pc' # "rb_verify_detail" =>
             stepResults'[Len(stepResults')] =
               <<"verify_response_body_capture", success > 0>> ]_vars

C37_Witness ==
  /\ pc = "rb_verify_detail" /\ idx = 2 /\ success = 0
  /\ request_detail = [kind |-> "detail", responseBody |-> "blank",
                       responseHeaders |-> TRUE, checks_passed |-> 2]

\* The stream is a concatenation of frames: a length, then exactly that many
\* units of JSON that make up one object, then the next frame.
RECURSIVE C38_WellFormed(_)
C38_WellFormed(s) ==
  IF s = <<>> THEN TRUE
  ELSE /\ s[1].t = "len"
       /\ s[1].n >= 2
       /\ Len(s) >= 1 + s[1].n
       /\ \A k \in 2..(1 + s[1].n) : s[k].t = "json"
       /\ s[2].b = "{" /\ s[1 + s[1].n].b = "}"
       /\ C38_WellFormed(SubSeq(s, 2 + s[1].n, Len(s)))

\* The "id" of each frame of a well-formed stream.
RECURSIVE C38_FrameIds(_)
C38_FrameIds(s) ==
  IF s = <<>> THEN <<>>
  ELSE <<s[4].b>> \o C38_FrameIds(SubSeq(s, 2 + s[1].n, Len(s)))

\* C38 (native-host debug stub): everything the stub has written to standard
\* output is a concatenation of well-formed length-prefixed frames, one per
\* handled message, in order, each carrying the id of the message it answers.
C38_StdoutOnlyFrames ==
  harness = "NH" =>
    /\ C38_WellFormed(stdout)
    /\ C38_FrameIds(stdout)
         = [k \in 1..Len(handled) |-> ResponseId(handled[k])]
====
